---- MODULE Spec2Model ----
(***************************************************************************)
(* Model of Analog::Circuit (src/src/circuit.hpp): the circuit builder,     *)
(* its lock discipline, the current evaluator (updateCurrents), the node    *)
(* voltage solver (adjustNodeVoltages), the simulation step and the sample  *)
(* driver (update).                                                         *)
(*                                                                          *)
(* Numbers.  The program computes in IEEE doubles.  Here every quantity is  *)
(* an integer multiple of a resolution: voltages in volts, currents in      *)
(* amps, time in 1/TimeScale seconds, sampling rates in 1/RateScale Hz, the *)
(* op-amp filter coefficient in 1/CoeffScale, the line-search step alpha in *)
(* 1/AlphaScale.  An int of the program keeps its 32 bits.  A division      *)
(* rounds to the nearest representable value (RoundDiv), as a floating      *)
(* point division does at its own resolution; a square root rounds down.    *)
(* Node, resistor, capacitor and op-amp indices are the program's 0-based   *)
(* indices; element i of a std::vector is element i+1 of the sequence.      *)
(***************************************************************************)
EXTENDS Integers, Sequences, FiniteSets, TLC

(***************************************************************************)
(* Bounds of the model.                                                     *)
(***************************************************************************)
MaxNodes == 2
MaxResistors == 1
MaxCapacitors == 1
MaxOpAmps == 2
MaxCalls == 3
MaxBuilderCalls == 1
MaxDoublings == 6
MaxSteps == 4

(***************************************************************************)
(* Program constants and number resolutions.                                *)
(***************************************************************************)
VOLTAGE_HISTORY == 3
VPOS == 12
VNEG == 0 - 12
\* The comparator saturation voltages, +11.38 V and -10.64 V, in whole volts.
COMPARATOR_HI_VOLTAGE == 11
COMPARATOR_LO_VOLTAGE == 0 - 11
INT_MAX == 2147483647
TimeScale == 2
RateScale == 2
CoeffScale == 8
AlphaScale == 6

(***************************************************************************)
(* Arithmetic helpers.                                                      *)
(***************************************************************************)
Abs(x) == IF x < 0 THEN 0 - x ELSE x

\* a / b for a >= 0 and b > 0, rounded to the nearest integer (ties upwards).
RoundDivNat(a, b) == (2 * a + b) \div (2 * b)

\* a / b for b # 0, rounded to the nearest integer (ties away from zero).
RoundDiv(a, b) ==
    IF (a >= 0) = (b > 0) THEN RoundDivNat(Abs(a), Abs(b))
                          ELSE 0 - RoundDivNat(Abs(a), Abs(b))

RECURSIVE SqrtSearch(_, _, _)
SqrtSearch(n, lo, hi) ==
    IF hi - lo <= 1 THEN lo
    ELSE LET mid == (lo + hi) \div 2
         IN  IF mid * mid <= n THEN SqrtSearch(n, mid, hi)
                               ELSE SqrtSearch(n, lo, mid)

\* std::sqrt on a non-negative value, rounded down.
Sqrt(n) == IF n <= 0 THEN 0 ELSE SqrtSearch(n, 0, IF n < 46340 THEN n + 1 ELSE 46341)

Max(a, b) == IF a >= b THEN a ELSE b

(***************************************************************************)
(* Inputs the operations are called with.                                   *)
(***************************************************************************)
SourceVoltages == {0, 6}
Resistances == {1, 4}
Capacitances == {1}
NodeIndices == 0 .. MaxNodes
NodePairs == {p \in NodeIndices \X NodeIndices : p[1] < p[2]}
\* Sampling rates in 1/RateScale Hz: -1 Hz, 0 Hz, 0.5 Hz, 1 Hz, 2 Hz.
AudioSampleRates == {0 - 2, 0, 1, 2, 4}
\* minInternalSamplingRate in Hz; the last choice is the largest int.
TunableChoices ==
    [scoreTolerance : {1}, deltaVoltage : {1}, minInternalSamplingRate : {2},
     opAmpSlewRateHalfLifeSeconds : {0, 1}, opAmpOpenLoopGain : {4},
     retryLimit : {1, 4}]
      \cup {[scoreTolerance |-> 1, deltaVoltage |-> 1, minInternalSamplingRate |-> INT_MAX,
              opAmpSlewRateHalfLifeSeconds |-> 0, opAmpOpenLoopGain |-> 4, retryLimit |-> 4]}

(***************************************************************************)
(* State: the fields of Circuit, and a record of the last public call.      *)
(***************************************************************************)
VARIABLES
    isLocked,                       \* Circuit::isLocked
    nodeList,                       \* Circuit::nodeList
    resistorList,                   \* Circuit::resistorList
    capacitorList,                  \* Circuit::capacitorList
    opAmpList,                      \* Circuit::opAmpList
    comparatorList,                 \* the comparators, in insertion order
    totalAdjustNodeVoltagesCount,   \* cumulative counters
    totalCurrentUpdates,
    totalSamples,
    simulationTime,
    opAmpFilterCoeff,
    tunables,                       \* the public tunable fields
    torporSlothCircuit,             \* the fields TorporSlothCircuit adds to Circuit
    lastCall,                       \* the last public call, its outcome and its return value
    history                         \* what the caller has observed since construction / initialize()

circuitVars == <<isLocked, nodeList, resistorList, capacitorList, opAmpList, comparatorList,
                 totalAdjustNodeVoltagesCount, totalCurrentUpdates, totalSamples,
                 simulationTime, opAmpFilterCoeff, tunables>>
vars == <<isLocked, nodeList, resistorList, capacitorList, opAmpList, comparatorList,
          totalAdjustNodeVoltagesCount, totalCurrentUpdates, totalSamples,
          simulationTime, opAmpFilterCoeff, tunables, torporSlothCircuit, lastCall, history>>

\* SolutionResult(0, 0, -1.0); exit names the way the last solver call ended.
NoResult == [adjustNodeVoltagesCount |-> 0, currentUpdates |-> 0, score |-> 0 - 1, exit |-> "none"]

\* A call of op and how it ended; arg is the sample rate of an update, the node
\* index of an allocateForcedVoltageNode, the <<pos, neg, out>> of an addOpAmp,
\* else 0.
\* steps is, for an update, the simulation steps it has made: the internal
\* sampling rate of each, the way each call of adjustNodeVoltages in it ended
\* and the comparator output voltages its evaluator calls met; for each call
\* of adjustNodeVoltages the score1 it measured and whether it has left an
\* unforced node at another voltage than it found it at (entry is what the
\* call now running found); and the score of the closing updateCurrents of a
\* step that used up the retry limit (-1 if there was none).
CallWith(op, arg, outcome) ==
    [op |-> op, arg |-> arg, outcome |-> outcome, result |-> NoResult, steps |-> <<>>]

Call(op, outcome) == CallWith(op, 0, outcome)

\* struct Node, as default-constructed.
Node == [voltage |-> [i \in 1 .. VOLTAGE_HISTORY |-> 0], savedVoltage |-> 0, current |-> 0, slope |-> 0, forced |-> FALSE]

\* struct Resistor, as constructed.
Resistor(resistance, a, b) ==
    [resistance |-> resistance, aNodeIndex |-> a, bNodeIndex |-> b, current |-> 0]

\* struct Capacitor, as constructed.
Capacitor(capacitance, a, b) ==
    [capacitance |-> capacitance, aNodeIndex |-> a, bNodeIndex |-> b, current |-> <<0, 0>>]

\* struct OpAmp, as constructed.
OpAmp(pos, neg, out) ==
    [posNodeIndex |-> pos, negNodeIndex |-> neg, outNodeIndex |-> out,
     current |-> 0, voltage |-> <<0, 0>>]

\* A comparator: the node it reads and the node it drives.
Comparator(neg, out) == [negNodeIndex |-> neg, outNodeIndex |-> out]

DefaultTunables ==
    [scoreTolerance |-> 1, deltaVoltage |-> 1, minInternalSamplingRate |-> 2,
     opAmpSlewRateHalfLifeSeconds |-> 0, opAmpOpenLoopGain |-> 4, retryLimit |-> 4]

\* calls and limit: the number of calls made to the locked circuit, plus the update
\* and initialize calls made before lock(), and how many the caller makes at most.  The rest is counted from construction or from the
\* last initialize().
\* fresh is, for an update made right after initialize(), what that update does
\* to a circuit just built with the same topology, values, sources and tunables.
\* trail is what the latest updates, at most VOLTAGE_HISTORY of them, left when
\* they returned one after the other with no other call between them: every
\* node's voltage[0] and the number of simulation steps made.
NoFresh == [outcome |-> "none", result |-> NoResult, voltage |-> <<>>]

NoHistory == [calls |-> 0, limit |-> MaxBuilderCalls, updatesReturned |-> 0, updatesRaised |-> 0,
              sumAdjustNodeVoltagesCount |-> 0, sumCurrentUpdates |-> 0, fresh |-> NoFresh,
              trail |-> <<>>]

\* The pointers of TorporSlothCircuit, each the index of what it points to and
\* -1 while it is null, and the number of calls its constructor has made (-1
\* once one of them has thrown).  A plain Circuit leaves them as they are here.
NoTorporSlothCircuit ==
    [position |-> 0, variableResistorIndex |-> 0 - 1, variableResistance |-> 0 - 1,
     controlVoltage |-> 0 - 1, xNodeVoltage |-> 0 - 1, yNodeVoltage |-> 0 - 1,
     zNodeVoltage |-> 0 - 1]

Init ==
    /\ isLocked = FALSE
    /\ nodeList = <<>>
    /\ resistorList = <<>>
    /\ capacitorList = <<>>
    /\ opAmpList = <<>>
    /\ comparatorList = <<>>
    /\ totalAdjustNodeVoltagesCount = 0
    /\ totalCurrentUpdates = 0
    /\ totalSamples = 0
    /\ simulationTime = 0
    /\ opAmpFilterCoeff = 0
    /\ tunables = DefaultTunables
    /\ torporSlothCircuit = NoTorporSlothCircuit
    /\ lastCall = Call("construct", "ok")
    /\ history = NoHistory

(***************************************************************************)
(* Lock discipline and index validation.                                    *)
(***************************************************************************)
\* confirmLocked() does not throw.
LockNotConfirmed == TRUE
confirmLocked == isLocked

\* confirmUnlocked() does not throw.
UnlockNotConfirmed == TRUE
confirmUnlocked == ~isLocked

\* nodeList.at(nodeIndex) does not throw.
v(nodeIndex) == nodeIndex >= 0 /\ nodeIndex < Len(nodeList)

\* The caller's bookkeeping of one more call to the locked circuit.
Counted == [history EXCEPT !.calls = @ + 1, !.trail = <<>>]

\* No earlier call is still running: a call that does not return ends the run.
Running == lastCall.outcome # "no_return"

CallAllowed == Running /\ (isLocked => history.calls < history.limit)

Noted == IF isLocked THEN Counted ELSE [history EXCEPT !.trail = <<>>]

UnchangedCounters ==
    UNCHANGED <<totalAdjustNodeVoltagesCount, totalCurrentUpdates, totalSamples,
                simulationTime, opAmpFilterCoeff>>

\* A call that throws before it has written anything.
RaisesWith(op, arg, outcome) ==
    /\ lastCall' = CallWith(op, arg, outcome)
    /\ UNCHANGED circuitVars

Raises(op, outcome) == RaisesWith(op, 0, outcome)

(***************************************************************************)
(* Builder operations.                                                      *)
(***************************************************************************)
Configure(t) ==
    /\ Running
    /\ ~isLocked
    /\ nodeList = <<>>
    /\ tunables' = t
    /\ lastCall' = Call("configure", "ok")
    /\ UNCHANGED <<isLocked, nodeList, resistorList, capacitorList, opAmpList, comparatorList, history>>
    /\ UnchangedCounters

\* lock() leaves the latch as it is.
lockForgotten ==
    /\ Running
    /\ ~isLocked
    /\ lastCall' = Call("lock", "ok")
    /\ UNCHANGED <<isLocked, nodeList, resistorList, capacitorList, opAmpList, comparatorList,
                   tunables, history>>
    /\ UnchangedCounters
lock ==
    /\ Running
    /\ ~isLocked
    /\ isLocked' = TRUE
    /\ lastCall' = Call("lock", "ok")
    /\ UNCHANGED <<nodeList, resistorList, capacitorList, opAmpList, comparatorList, tunables, history>>
    /\ UnchangedCounters

createNode ==
    /\ CallAllowed
    /\ history' = Noted
    /\ IF ~confirmUnlocked
       THEN Raises("createNode", "lock_error")
       ELSE /\ nodeList' = Append(nodeList, Node)
            /\ lastCall' = Call("createNode", "ok")
            /\ UNCHANGED <<isLocked, resistorList, capacitorList, opAmpList, comparatorList, tunables>>
            /\ UnchangedCounters

\* No node is ever found forced.
NeverAlreadyForced(node) == FALSE
\* if (node.forced) throw: the node already has a voltage forcer.
AlreadyForced(node) == node.forced

allocateForcedVoltageNode(nodeIndex) ==
    /\ CallAllowed
    /\ history' = Noted
    /\ IF ~v(nodeIndex)
       THEN RaisesWith("allocateForcedVoltageNode", nodeIndex, "out_of_range")
       ELSE IF AlreadyForced(nodeList[nodeIndex + 1])
       THEN RaisesWith("allocateForcedVoltageNode", nodeIndex, "already_forced")
       ELSE /\ nodeList' = [nodeList EXCEPT ![nodeIndex + 1].forced = TRUE]
            /\ lastCall' = CallWith("allocateForcedVoltageNode", nodeIndex, "ok")
            /\ UNCHANGED <<isLocked, resistorList, capacitorList, opAmpList, comparatorList, tunables>>
            /\ UnchangedCounters

\* createNode, allocateForcedVoltageNode on the new node, then all of its voltage history.
ForcedVoltageNode(op, voltage) ==
    /\ CallAllowed
    /\ history' = Noted
    /\ IF ~confirmUnlocked
       THEN Raises(op, "lock_error")
       ELSE /\ nodeList' = Append(nodeList,
                   [Node EXCEPT !.forced = TRUE,
                                !.voltage = [i \in 1 .. VOLTAGE_HISTORY |-> voltage]])
            /\ lastCall' = Call(op, "ok")
            /\ UNCHANGED <<isLocked, resistorList, capacitorList, opAmpList, comparatorList, tunables>>
            /\ UnchangedCounters

createForcedVoltageNode(voltage) == ForcedVoltageNode("createForcedVoltageNode", voltage)

createGroundNode == ForcedVoltageNode("createGroundNode", 0)

addResistor(resistance, aNodeIndex, bNodeIndex) ==
    /\ CallAllowed
    /\ history' = Noted
    /\ IF ~confirmUnlocked
       THEN Raises("addResistor", "lock_error")
       ELSE IF ~(v(aNodeIndex) /\ v(bNodeIndex))
       THEN Raises("addResistor", "out_of_range")
       ELSE /\ resistorList' = Append(resistorList, Resistor(resistance, aNodeIndex, bNodeIndex))
            /\ lastCall' = Call("addResistor", "ok")
            /\ UNCHANGED <<isLocked, nodeList, capacitorList, opAmpList, comparatorList, tunables>>
            /\ UnchangedCounters

addCapacitor(capacitance, aNodeIndex, bNodeIndex) ==
    /\ CallAllowed
    /\ history' = Noted
    /\ IF ~confirmUnlocked
       THEN Raises("addCapacitor", "lock_error")
       ELSE IF ~(v(aNodeIndex) /\ v(bNodeIndex))
       THEN Raises("addCapacitor", "out_of_range")
       ELSE /\ capacitorList' = Append(capacitorList, Capacitor(capacitance, aNodeIndex, bNodeIndex))
            /\ lastCall' = Call("addCapacitor", "ok")
            /\ UNCHANGED <<isLocked, nodeList, resistorList, opAmpList, comparatorList, tunables>>
            /\ UnchangedCounters

\* The order check made against the negative inputs only.
FeedsEarlierNegativeInput(outNodeIndex) ==
    \E i \in 1 .. Len(opAmpList) : opAmpList[i].negNodeIndex = outNodeIndex

\* Some op-amp already in the list reads the new op-amp's output node.
FeedsEarlierOpAmp(outNodeIndex) ==
    \E i \in 1 .. Len(opAmpList) :
        \/ opAmpList[i].negNodeIndex = outNodeIndex
        \/ opAmpList[i].posNodeIndex = outNodeIndex

addOpAmp(posNodeIndex, negNodeIndex, outNodeIndex) ==
    /\ CallAllowed
    /\ history' = Noted
    /\ IF ~confirmUnlocked
       THEN RaisesWith("addOpAmp", <<posNodeIndex, negNodeIndex, outNodeIndex>>, "lock_error")
       ELSE IF ~(v(posNodeIndex) /\ v(negNodeIndex))
       THEN RaisesWith("addOpAmp", <<posNodeIndex, negNodeIndex, outNodeIndex>>, "out_of_range")
       ELSE IF FeedsEarlierOpAmp(outNodeIndex)
       THEN RaisesWith("addOpAmp", <<posNodeIndex, negNodeIndex, outNodeIndex>>, "order_error")
       ELSE IF ~v(outNodeIndex)
       THEN RaisesWith("addOpAmp", <<posNodeIndex, negNodeIndex, outNodeIndex>>, "out_of_range")
       ELSE IF AlreadyForced(nodeList[outNodeIndex + 1])
       THEN RaisesWith("addOpAmp", <<posNodeIndex, negNodeIndex, outNodeIndex>>, "already_forced")
       ELSE /\ nodeList' = [nodeList EXCEPT ![outNodeIndex + 1].forced = TRUE]
            /\ opAmpList' = Append(opAmpList, OpAmp(posNodeIndex, negNodeIndex, outNodeIndex))
            /\ lastCall' = CallWith("addOpAmp", <<posNodeIndex, negNodeIndex, outNodeIndex>>, "ok")
            /\ UNCHANGED <<isLocked, resistorList, capacitorList, comparatorList, tunables>>
            /\ UnchangedCounters

(***************************************************************************)
(* The current evaluator.  The solver works on the dynamic part of the      *)
(* circuit, d = [nodeList, resistorList, capacitorList, opAmpList,          *)
(* totalCurrentUpdates, totalAdjustNodeVoltagesCount], with the comparator  *)
(* list, which it only reads, and the record                                *)
(* steps of the simulation steps made so far; simRate is the internal       *)
(* sampling rate in 1/RateScale Hz, so dt = RateScale / simRate.  A step    *)
(* that the program takes after another one is an operator applied to the   *)
(* other's result.                                                          *)
(***************************************************************************)
Dynamic ==
    [nodeList |-> nodeList, resistorList |-> resistorList,
     capacitorList |-> capacitorList, opAmpList |-> opAmpList,
     comparatorList |-> comparatorList,
     totalCurrentUpdates |-> totalCurrentUpdates,
     totalAdjustNodeVoltagesCount |-> totalAdjustNodeVoltagesCount,
     steps |-> <<>>]

\* Clamp of the instantaneous op-amp output to the supply rails.
Clamp(vfast) == IF vfast < VNEG THEN VNEG ELSE IF vfast > VPOS THEN VPOS ELSE vfast

\* One product of the low-pass slew filter, weight in 1/CoeffScale: the program
\* rounds each product to a double, here to the resolution of a voltage.
FilterTerm(weight, voltage) == RoundDiv(weight * voltage, CoeffScale)

\* The positive input of a linear amp, which has no node: it is grounded.
GroundedInput == 0 - 1

\* The voltage on the positive input of op-amp o.
PosVoltage(d, o) ==
    IF o.posNodeIndex = GroundedInput THEN 0 ELSE d.nodeList[o.posNodeIndex + 1].voltage[1]

\* Op-amp i, about to write its output node, overwrites a node that op-amp k,
\* no later in the pass, has read as an input.
OverwritesInputOf(d, i, k) ==
    /\ k <= i
    /\ d.opAmpList[i].outNodeIndex \in {d.opAmpList[k].posNodeIndex, d.opAmpList[k].negNodeIndex}

\* d with the input nodes rewritten after they were read noted in its current step.
OverwriteNoted(d, i) ==
    IF d.steps = <<>> THEN d
    ELSE IF \E k \in 1 .. i : OverwritesInputOf(d, i, k)
    THEN [d EXCEPT !.steps[Len(d.steps)].overwritten = @ \cup {d.opAmpList[i].outNodeIndex}]
    ELSE d

\* The op-amp loop: op-amps i, i+1, ... in insertion order, each reading the
\* node voltages the earlier ones have left.
RECURSIVE OpAmpOutputs(_, _, _)
OpAmpOutputs(d, coeff, i) ==
    IF i > Len(d.opAmpList) THEN d
    ELSE LET o == d.opAmpList[i]
             negNode == d.nodeList[o.negNodeIndex + 1]
             vfast == Clamp(tunables.opAmpOpenLoopGain * (PosVoltage(d, o) - negNode.voltage[1]))
             vout == FilterTerm(coeff, o.voltage[2]) + FilterTerm(CoeffScale - coeff, vfast)
         IN  OpAmpOutputs(
                 [OverwriteNoted(d, i) EXCEPT !.opAmpList[i].voltage[1] = vout,
                                              !.nodeList[o.outNodeIndex + 1].voltage[1] = vout],
                 coeff, i + 1)

\* Every node reset as a whole, its forced flag with its current.
ZeroNodes(d) ==
    [d EXCEPT !.nodeList =
        [i \in 1 .. Len(d.nodeList) |->
            [d.nodeList[i] EXCEPT !.current = 0, !.forced = FALSE]]]
\* Every node's current set to zero before the components add theirs.
ZeroNodeCurrents(d) ==
    [d EXCEPT !.nodeList = [i \in 1 .. Len(d.nodeList) |-> [d.nodeList[i] EXCEPT !.current = 0]]]

\* The current added to the node it flows into only.
FlowIntoOnly(nl, aNodeIndex, bNodeIndex, current) ==
    [i \in 1 .. Len(nl) |->
        [nl[i] EXCEPT !.current = nl[i].current
                                    + (IF i = bNodeIndex + 1 THEN current ELSE 0)]]

\* n1.current -= current; n2.current += current.
Flow(nl, aNodeIndex, bNodeIndex, current) ==
    [i \in 1 .. Len(nl) |->
        [nl[i] EXCEPT !.current = nl[i].current
                                    - (IF i = aNodeIndex + 1 THEN current ELSE 0)
                                    + (IF i = bNodeIndex + 1 THEN current ELSE 0)]]

\* The current through a resistor, from node a to node b.
ResistorCurrent(r, n1, n2) == RoundDiv(n1.voltage[1] - n2.voltage[1], r.resistance)

\* Resistor i with its new current, and the nodes at its ends.
WithResistorCurrent(d, i, r, current) ==
    [d EXCEPT !.resistorList[i].current = current,
              !.nodeList = Flow(d.nodeList, r.aNodeIndex, r.bNodeIndex, current)]

RECURSIVE ResistorCurrents(_, _)
ResistorCurrents(d, i) ==
    IF i > Len(d.resistorList) THEN d
    ELSE ResistorCurrents(
             WithResistorCurrent(d, i, d.resistorList[i],
                 ResistorCurrent(d.resistorList[i],
                                 d.nodeList[d.resistorList[i].aNodeIndex + 1],
                                 d.nodeList[d.resistorList[i].bNodeIndex + 1])),
             i + 1)

\* The mean current over the interval alone, the previous current left out.
CapacitorCurrentWithoutPrevious(c, n1, n2, simRate) ==
    RoundDiv(c.capacitance
               * (((n1.voltage[1] - n2.voltage[1]) - (n1.voltage[2] - n2.voltage[2]))
                    * simRate),
             RateScale)
\* The new capacitor current by the trapezoidal rule.
CapacitorCurrent(c, n1, n2, simRate) ==
    2 * RoundDiv(c.capacitance
                   * (((n1.voltage[1] - n2.voltage[1]) - (n1.voltage[2] - n2.voltage[2]))
                        * simRate),
                 RateScale)
      - c.current[2]

\* Capacitor i with its new current, and the nodes at its ends.
WithCapacitorCurrent(d, i, c, current) ==
    [d EXCEPT !.capacitorList[i].current[1] = current,
              !.nodeList = Flow(d.nodeList, c.aNodeIndex, c.bNodeIndex, current)]

RECURSIVE CapacitorCurrents(_, _, _)
CapacitorCurrents(d, simRate, i) ==
    IF i > Len(d.capacitorList) THEN d
    ELSE CapacitorCurrents(
             WithCapacitorCurrent(d, i, d.capacitorList[i],
                 CapacitorCurrent(d.capacitorList[i],
                                  d.nodeList[d.capacitorList[i].aNodeIndex + 1],
                                  d.nodeList[d.capacitorList[i].bNodeIndex + 1], simRate)),
             simRate, i + 1)

\* Each op-amp sources or sinks whatever its output node needs.
OpAmpCurrents(d) ==
    [d EXCEPT !.opAmpList =
        [i \in 1 .. Len(d.opAmpList) |->
            [d.opAmpList[i] EXCEPT
                !.current = 0 - d.nodeList[d.opAmpList[i].outNodeIndex + 1].current]]]

\* No node's current counts towards the score.
SumSquaresOfNone(nl, i) == 0
\* The sum of the squared currents of the unforced nodes i, i+1, ...
RECURSIVE SumSquares(_, _)
SumSquares(nl, i) ==
    IF i > Len(nl) THEN 0
    ELSE (IF nl[i].forced THEN 0 ELSE nl[i].current * nl[i].current) + SumSquares(nl, i + 1)

\* The closing loop of updateCurrents: forced nodes' currents zeroed, the rest scored.
Scored(d) ==
    [d |-> [d EXCEPT !.nodeList =
               [i \in 1 .. Len(d.nodeList) |->
                   IF d.nodeList[i].forced THEN [d.nodeList[i] EXCEPT !.current = 0]
                   ELSE d.nodeList[i]]],
     score |-> SumSquares(d.nodeList, 1)]

\* Comparators.  The circuit.hpp of src/ has op-amps only; its callers
\* torpor_sloth_circuit.hpp and fossil/circuit_test.cpp use addComparator and
\* comparator(i).  The comparator, its latch in the sample driver and its place
\* in the evaluator follow the specification (spec.md, sections 3, 4.2, 4.4).
\* The voltage each comparator's output node holds.
ComparatorOutputs(d) ==
    [k \in 1 .. Len(d.comparatorList) |->
        d.nodeList[d.comparatorList[k].outNodeIndex + 1].voltage[1]]

\* The voltage a comparator drives its output to, given the voltage on its input.
Saturated(negVoltage) ==
    IF negVoltage < 0 THEN COMPARATOR_HI_VOLTAGE ELSE COMPARATOR_LO_VOLTAGE

\* The outputs of comparators k, k+1, ... latched from the node voltages.
RECURSIVE LatchComparators(_, _)
LatchComparators(d, k) ==
    IF k > Len(d.comparatorList) THEN d
    ELSE LatchComparators(
             [d EXCEPT !.nodeList[d.comparatorList[k].outNodeIndex + 1].voltage[1] =
                 Saturated(d.nodeList[d.comparatorList[k].negNodeIndex + 1].voltage[1])],
             k + 1)

\* The evaluator drives the comparators from the voltages it is called with.
ComparatorsFollowed(d) == LatchComparators(d, 1)
\* The evaluator's pass over the comparators: their outputs stay as latched.
ComparatorsHeld(d) == d

\* d with the comparator outputs this evaluator call meets noted in its current step.
OutputsNoted(d) ==
    IF d.steps = <<>> THEN d
    ELSE [d EXCEPT !.steps[Len(d.steps)].outputs = @ \cup {ComparatorOutputs(d)}]

\* d with the net current of every node, as the resistor and capacitor loops
\* have accumulated it, noted in its current step.
AccumulatedNoted(d) ==
    IF d.steps = <<>> THEN d
    ELSE [d EXCEPT !.steps[Len(d.steps)].accumulated =
             @ \cup {[i \in 1 .. Len(d.nodeList) |-> d.nodeList[i].current]}]

\* e with the voltage history of every node and the current history of every
\* capacitor, as this evaluator call leaves them, noted in its current step.
EvaluationNoted(e) ==
    IF e.d.steps = <<>> THEN e
    ELSE [e EXCEPT !.d.steps[Len(e.d.steps)].evaluated =
             @ \cup {[voltage |-> [i \in 1 .. Len(e.d.nodeList) |-> e.d.nodeList[i].voltage],
                      current |-> [i \in 1 .. Len(e.d.capacitorList) |->
                                      e.d.capacitorList[i].current]]}]

\* updateCurrents(dt): [d |-> the circuit afterwards, score |-> the returned sum of squares].
updateCurrents(d0, simRate, coeff) ==
    EvaluationNoted(Scored(AccumulatedNoted(OpAmpCurrents(CapacitorCurrents(ResistorCurrents(
        ZeroNodeCurrents(OpAmpOutputs(OutputsNoted(ComparatorsHeld(
            [d0 EXCEPT !.totalCurrentUpdates = @ + 1])), coeff, 1)), 1), simRate, 1)))))

(***************************************************************************)
(* The node voltage solver.                                                 *)
(***************************************************************************)
\* The step taken on every node, forced or not.
VoltageStepAllNodes(d, step) ==
    [d EXCEPT !.nodeList =
        [i \in 1 .. Len(d.nodeList) |->
            [d.nodeList[i] EXCEPT !.voltage[1] =
                d.nodeList[i].savedVoltage
                  + RoundDiv(step * d.nodeList[i].slope, AlphaScale)]]]

\* voltageStep(step), step in 1/AlphaScale.
voltageStep(d, step) ==
    [d EXCEPT !.nodeList =
        [i \in 1 .. Len(d.nodeList) |->
            IF d.nodeList[i].forced THEN d.nodeList[i]
            ELSE [d.nodeList[i] EXCEPT !.voltage[1] =
                     d.nodeList[i].savedVoltage
                       + RoundDiv(step * d.nodeList[i].slope, AlphaScale)]]]

\* The fallback direction after a probe of node i (1-based) by adjust has scored score2.
BetterFallback(acc, i, score2, adjust) ==
    IF score2 < acc.fallbackScore
    THEN [acc EXCEPT !.fallbackNode = i - 1, !.fallbackScore = score2, !.fallbackAdjust = adjust]
    ELSE acc

\* Node i probed upwards: its voltage saved, then raised by deltaVoltage.
ProbeUp(d, simRate, coeff, i) ==
    updateCurrents([d EXCEPT !.nodeList[i].savedVoltage = d.nodeList[i].voltage[1],
                             !.nodeList[i].voltage[1] = d.nodeList[i].voltage[1]
                                                          + tunables.deltaVoltage],
                   simRate, coeff)

\* Node i probed downwards from its saved voltage.
ProbeDown(d, simRate, coeff, i) ==
    updateCurrents([d EXCEPT !.nodeList[i].voltage[1] = d.nodeList[i].savedVoltage
                                                          - tunables.deltaVoltage],
                   simRate, coeff)

\* Node i after both probes ep and en: its slope, its voltage restored, and acc
\* with the fallback and the magnitude brought up to date.
Probed(ep, en, i, acc) ==
    [d |-> [en.d EXCEPT !.nodeList[i].slope = ep.score - en.score,
                        !.nodeList[i].voltage[1] = en.d.nodeList[i].savedVoltage],
     acc |-> [BetterFallback(BetterFallback(acc, i, ep.score, tunables.deltaVoltage),
                             i, en.score, 0 - tunables.deltaVoltage)
                 EXCEPT !.magnitude = @ + (ep.score - en.score) * (ep.score - en.score)]]

ProbeBoth(ep, simRate, coeff, i, acc) ==
    Probed(ep, ProbeDown(ep.d, simRate, coeff, i), i, acc)

\* The partial-derivative loop over nodes i, i+1, ...; acc carries fallbackNode
\* (a node index, or -1 for nullptr), fallbackScore, fallbackAdjust and magnitude.
RECURSIVE Partials(_, _, _, _, _)
RECURSIVE PartialsFrom(_, _, _, _)
Partials(d, simRate, coeff, i, acc) ==
    IF i > Len(d.nodeList) THEN [d |-> d, acc |-> acc]
    ELSE IF d.nodeList[i].forced THEN Partials(d, simRate, coeff, i + 1, acc)
    ELSE PartialsFrom(ProbeBoth(ProbeUp(d, simRate, coeff, i), simRate, coeff, i, acc),
                      simRate, coeff, i + 1)

PartialsFrom(p, simRate, coeff, i) == Partials(p.d, simRate, coeff, i, p.acc)

\* The micro-step along the normalised gradient.
MicroStep(d, magnitude) ==
    [d EXCEPT !.nodeList =
        [i \in 1 .. Len(d.nodeList) |->
            IF d.nodeList[i].forced THEN d.nodeList[i]
            ELSE [d.nodeList[i] EXCEPT
                     !.savedVoltage = d.nodeList[i].voltage[1],
                     !.slope = RoundDiv(0 - (d.nodeList[i].slope * tunables.deltaVoltage),
                                        magnitude),
                     !.voltage[1] = d.nodeList[i].voltage[1]
                                      + RoundDiv(0 - (d.nodeList[i].slope * tunables.deltaVoltage),
                                                 magnitude)]]]

\* Revert the unforced node voltages.
RestoreVoltages(d) ==
    [d EXCEPT !.nodeList =
        [i \in 1 .. Len(d.nodeList) |->
            IF d.nodeList[i].forced THEN d.nodeList[i]
            ELSE [d.nodeList[i] EXCEPT !.voltage[1] = d.nodeList[i].savedVoltage]]]

\* Reset all node voltages and step along the single axis of fallbackNode.
Fallback(d, acc) ==
    [d EXCEPT !.nodeList =
        [i \in 1 .. Len(d.nodeList) |->
            IF d.nodeList[i].forced THEN d.nodeList[i]
            ELSE [d.nodeList[i] EXCEPT
                     !.voltage[1] = d.nodeList[i].savedVoltage,
                     !.slope = IF i = acc.fallbackNode + 1 THEN acc.fallbackAdjust ELSE 0]]]

\* best = [alpha, score] after a trial of alpha has scored lineScore.
Better(best, alpha, lineScore) ==
    IF lineScore < best.score THEN [alpha |-> alpha, score |-> lineScore] ELSE best

\* The upper-bracket loop from alpha on (alpha in 1/AlphaScale, doubled k times
\* so far).  The loop has no bound of its own: ended is FALSE when it is still
\* running after MaxDoublings doublings.
RECURSIVE UpperBracket(_, _, _, _, _, _, _)
RECURSIVE UpperBracketFrom(_, _, _, _, _, _, _)
UpperBracket(d, simRate, coeff, score1, alpha, k, best) ==
    UpperBracketFrom(updateCurrents(voltageStep(d, alpha), simRate, coeff),
                     simRate, coeff, score1, alpha, k, best)

\* The upper-bracket loop with its test against score1 left out: it goes on
\* doubling whatever the trials score, and so has not ended.
UpperBracketUnconditional(e, simRate, coeff, score1, alpha, k, best) ==
    [d |-> e.d, best |-> Better(best, alpha, e.score), ended |-> FALSE]

UpperBracketFrom(e, simRate, coeff, score1, alpha, k, best) ==
    IF ~(e.score < score1)
    THEN [d |-> e.d, best |-> Better(best, alpha, e.score), ended |-> TRUE]
    ELSE IF k >= MaxDoublings
    THEN [d |-> e.d, best |-> Better(best, alpha, e.score), ended |-> FALSE]
    ELSE UpperBracket(e.d, simRate, coeff, score1, 2 * alpha, k + 1,
                      Better(best, alpha, e.score))

\* The search over the interior points step, step+1, ..., nsteps-1 of (loAlpha, hiAlpha).
RECURSIVE LinearSteps(_, _, _, _, _, _, _)
RECURSIVE LinearStepsFrom(_, _, _, _, _, _, _, _)
LinearSteps(d, simRate, coeff, loAlpha, hiAlpha, step, best) ==
    IF step >= 9 THEN [d |-> d, best |-> best]
    ELSE LinearStepsFrom(
             updateCurrents(voltageStep(d, loAlpha + RoundDiv(step * (hiAlpha - loAlpha), 9)),
                            simRate, coeff),
             simRate, coeff, loAlpha, hiAlpha, step,
             loAlpha + RoundDiv(step * (hiAlpha - loAlpha), 9), best)

LinearStepsFrom(e, simRate, coeff, loAlpha, hiAlpha, step, alpha, best) ==
    IF e.score < best.score
    THEN LinearSteps(e.d, simRate, coeff, loAlpha, hiAlpha, step + 1,
                     [alpha |-> alpha, score |-> e.score])
    ELSE LinearSteps(e.d, simRate, coeff, loAlpha, hiAlpha, step + 1, best)

\* The end of adjustNodeVoltages: the step to the best alpha found.
BestStep(lin) ==
    [d |-> voltageStep(lin.d, lin.best.alpha), score |-> 0 - 1, exit |-> "progress"]

\* The linear search between the brackets that up has found.
Bracketed(up, simRate, coeff) ==
    IF ~up.ended
    THEN [d |-> up.d, score |-> 0 - 1, exit |-> "no_return"]
    ELSE BestStep(LinearSteps(up.d, simRate, coeff, RoundDiv(up.best.alpha, 2),
                              up.best.alpha * 2, 1, up.best))

\* The line search that ends adjustNodeVoltages.
LineSearch(d, simRate, coeff, score1, score3) ==
    Bracketed(UpperBracket(d, simRate, coeff, score1, 2 * AlphaScale, 1,
                           [alpha |-> AlphaScale, score |-> score3]),
              simRate, coeff)

\* adjustNodeVoltages after the micro-step has scored e3.
AfterMicroStep(e3, acc, score1, simRate, coeff) ==
    IF e3.score >= score1 /\ acc.fallbackNode = 0 - 1
    THEN [d |-> RestoreVoltages(e3.d), score |-> Sqrt(score1), exit |-> "local_minimum"]
    ELSE IF e3.score >= score1
    THEN LineSearch(Fallback(e3.d, acc), simRate, coeff, score1, e3.score)
    ELSE LineSearch(e3.d, simRate, coeff, score1, e3.score)

\* adjustNodeVoltages after the partial-derivative loop has left p.
AfterPartials(p, score1, simRate, coeff) ==
    IF p.acc.magnitude = 0
    THEN [d |-> p.d, score |-> 0 - 1, exit |-> "zero_gradient"]
    ELSE AfterMicroStep(updateCurrents(MicroStep(p.d, Sqrt(p.acc.magnitude)), simRate, coeff),
                        p.acc, score1, simRate, coeff)

\* adjustNodeVoltages after its first updateCurrents has scored e1.
AfterScore1(e1, simRate, coeff) ==
    IF e1.score < tunables.scoreTolerance * tunables.scoreTolerance
    THEN [d |-> e1.d, score |-> Sqrt(e1.score), exit |-> "tolerance"]
    ELSE AfterPartials(Partials(e1.d, simRate, coeff, 1,
                                [fallbackNode |-> 0 - 1, fallbackScore |-> e1.score,
                                 fallbackAdjust |-> 0, magnitude |-> 0]),
                       e1.score, simRate, coeff)

\* d with the voltages a call of adjustNodeVoltages finds noted in its current step.
EntryNoted(d) ==
    [d EXCEPT !.steps[Len(d.steps)].entry =
        [i \in 1 .. Len(d.nodeList) |-> d.nodeList[i].voltage[1]]]

\* e with the score1 of a call of adjustNodeVoltages noted in its current step.
Score1Noted(e) == [e EXCEPT !.d.steps[Len(e.d.steps)].scores = Append(@, e.score)]

\* adjustNodeVoltages(dt): [d, score, exit], where exit names the way out:
\* "tolerance" and "local_minimum" return score >= 0, "progress" returns -1,
\* "zero_gradient" throws std::logic_error, "no_return" is a line search that
\* has not ended.
adjustNodeVoltages(d0, simRate, coeff) ==
    AfterScore1(Score1Noted(updateCurrents(
                    EntryNoted([d0 EXCEPT !.totalAdjustNodeVoltagesCount = @ + 1]),
                    simRate, coeff)),
                simRate, coeff)

(***************************************************************************)
(* The simulation step and the sample driver.                               *)
(***************************************************************************)
\* No trend extrapolated: every node left at its newest voltage.
extrapolateNoNodeVoltages(nl) == nl
\* Extrapolate the recent trend of each unforced node's voltage.
extrapolateUnforcedNodeVoltages(nl) ==
    [i \in 1 .. Len(nl) |->
        IF nl[i].forced THEN nl[i]
        ELSE [nl[i] EXCEPT !.voltage[1] = nl[i].voltage[2] + (nl[i].voltage[2] - nl[i].voltage[3])]]

\* The newest voltage of every node copied into voltage[1] only.
ShiftedNewestOnly(nl) ==
    [i \in 1 .. Len(nl) |->
        [nl[i] EXCEPT !.voltage = <<nl[i].voltage[1], nl[i].voltage[1], nl[i].voltage[3]>>]]
\* The voltage history of every node shifted by one sample.
ShiftedVoltages(nl) ==
    [i \in 1 .. Len(nl) |->
        [nl[i] EXCEPT !.voltage = <<nl[i].voltage[1], nl[i].voltage[1], nl[i].voltage[2]>>]]

\* The history shifts that open simulationStep, and the extrapolation.
ShiftHistory(d) ==
    [d EXCEPT
        !.nodeList = extrapolateUnforcedNodeVoltages(ShiftedVoltages(d.nodeList)),
        !.capacitorList =
            [i \in 1 .. Len(d.capacitorList) |->
                [d.capacitorList[i] EXCEPT !.current[2] = d.capacitorList[i].current[1]]],
        !.opAmpList =
            [i \in 1 .. Len(d.opAmpList) |->
                [d.opAmpList[i] EXCEPT !.voltage[2] = d.opAmpList[i].voltage[1]]]]

\* simulationStep reports the value of count after its loop.
ExhaustedPastLimit(e, currentUpdatesBefore) ==
    [d |-> e.d, outcome |-> "ok",
     result |-> [adjustNodeVoltagesCount |-> tunables.retryLimit + 1,
                 currentUpdates |-> e.d.totalCurrentUpdates - currentUpdatesBefore,
                 score |-> Sqrt(e.score), exit |-> "retry_limit"]]
\* simulationStep once the retry limit is exhausted and updateCurrents has scored e.
Exhausted(e, currentUpdatesBefore) ==
    [d |-> e.d, outcome |-> "ok",
     result |-> [adjustNodeVoltagesCount |-> tunables.retryLimit,
                 currentUpdates |-> e.d.totalCurrentUpdates - currentUpdatesBefore,
                 score |-> Sqrt(e.score), exit |-> "retry_limit"]]

\* e with the score of the closing updateCurrents noted in its current step.
ResidualNoted(e) == [e EXCEPT !.d.steps[Len(e.d.steps)].residual = e.score]

\* The retry loop from iteration count on.
RECURSIVE RetryLoop(_, _, _, _, _)
RECURSIVE Retried(_, _, _, _, _)
RetryLoop(d, simRate, coeff, currentUpdatesBefore, count) ==
    IF count > tunables.retryLimit
    THEN Exhausted(ResidualNoted(updateCurrents(d, simRate, coeff)), currentUpdatesBefore)
    ELSE Retried(adjustNodeVoltages(d, simRate, coeff), simRate, coeff,
                 currentUpdatesBefore, count)

\* d with the way a call of adjustNodeVoltages ended noted in its current step.
ExitNoted(d, exit) ==
    [d EXCEPT !.steps[Len(d.steps)].exits = Append(@, exit),
              !.steps[Len(d.steps)].moved =
                  Append(@, \E i \in 1 .. Len(d.nodeList) :
                                /\ ~d.nodeList[i].forced
                                /\ d.nodeList[i].voltage[1] # d.steps[Len(d.steps)].entry[i])]

\* The newest voltage of every node of d.
NewestVoltages(d) == [i \in 1 .. Len(d.nodeList) |-> d.nodeList[i].voltage[1]]

\* d with the voltages its current step starts the solver from noted.
GuessNoted(d) == [d EXCEPT !.steps[Len(d.steps)].guess = NewestVoltages(d)]

\* r with the voltages its current step leaves noted.
LeftNoted(r) == [r EXCEPT !.d.steps[Len(r.d.steps)].left = NewestVoltages(r.d)]

\* d with a new simulation step at simRate noted.
StepNoted(d, simRate) ==
    [d EXCEPT !.steps = Append(@, [simRate |-> simRate, exits |-> <<>>, outputs |-> {},
                                   scores |-> <<>>, moved |-> <<>>, entry |-> <<>>,
                                   residual |-> 0 - 1, overwritten |-> {},
                                   evaluated |-> {}, accumulated |-> {},
                                   before |-> NewestVoltages(d), guess |-> <<>>,
                                   left |-> <<>>])]

\* The retry loop after iteration count has called adjustNodeVoltages, which left a.
Retried(a, simRate, coeff, currentUpdatesBefore, count) ==
    IF a.exit = "zero_gradient"
    THEN [d |-> ExitNoted(a.d, a.exit), outcome |-> "logic_error", result |-> NoResult]
    ELSE IF a.exit = "no_return"
    THEN [d |-> ExitNoted(a.d, a.exit), outcome |-> "no_return", result |-> NoResult]
    ELSE IF a.score >= 0
    THEN [d |-> ExitNoted(a.d, a.exit), outcome |-> "ok",
          result |-> [adjustNodeVoltagesCount |-> count,
                      currentUpdates |-> a.d.totalCurrentUpdates - currentUpdatesBefore,
                      score |-> a.score, exit |-> a.exit]]
    ELSE RetryLoop(ExitNoted(a.d, a.exit), simRate, coeff, currentUpdatesBefore, count + 1)

\* simulationStep(simSampleRateHz): [d, outcome, result].
simulationStep(d, simRate, coeff) ==
    LeftNoted(RetryLoop(GuessNoted(ShiftHistory(StepNoted(d, simRate))), simRate, coeff,
                        d.totalCurrentUpdates, 1))

\* ceil(a / b) for b > 0.
Ceil(a, b) == 0 - ((0 - a) \div b)

\* std::ceil(realFactor) for a positive rate, realFactor being
\* minInternalSamplingRate / audioSampleRateHz: the quotient of the whole
\* hertz first, then that of the remainder.
CeilRealFactor(audioSampleRateHz) ==
    (tunables.minInternalSamplingRate \div audioSampleRateHz) * RateScale
      + Ceil((tunables.minInternalSamplingRate % audioSampleRateHz) * RateScale,
             audioSampleRateHz)

\* std::ceil(realFactor) is a value of int.
RealFactorFitsInt(audioSampleRateHz) ==
    /\ tunables.minInternalSamplingRate \div audioSampleRateHz <= INT_MAX \div RateScale
    /\ Ceil((tunables.minInternalSamplingRate % audioSampleRateHz) * RateScale,
            audioSampleRateHz)
         <= INT_MAX - (tunables.minInternalSamplingRate \div audioSampleRateHz) * RateScale

\* static_cast<int>(std::ceil(realFactor)): the value where int holds it; past
\* int the conversion is undefined, and a build leaves the smallest int (the
\* x86 conversion) or the largest one (a saturating conversion).
StaticCastInt(audioSampleRateHz) ==
    IF RealFactorFitsInt(audioSampleRateHz) THEN {CeilRealFactor(audioSampleRateHz)}
    ELSE {(0 - INT_MAX) - 1, INT_MAX}

\* The oversampling factors update can compute: std::max(1, the cast), which
\* is 1 for a negative rate.
OversampleFactors(audioSampleRateHz) ==
    IF audioSampleRateHz < 0 THEN {1}
    ELSE {Max(1, cast) : cast \in StaticCastInt(audioSampleRateHz)}

RECURSIVE Power(_, _)
Power(b, k) == IF k <= 0 THEN 1 ELSE b * Power(b, k - 1)

\* std::pow(0.5, 1.0 / (k / RateScale)) in 1/CoeffScale, rounded down.
HalfLifeCoeff(k) ==
    IF k > 0
    THEN CHOOSE c \in 0 .. CoeffScale :
             /\ Power(2, RateScale) * Power(c, k) <= Power(CoeffScale, k)
             /\ Power(2, RateScale) * Power(c + 1, k) > Power(CoeffScale, k)
    ELSE IF k = 0 THEN 0
    ELSE CHOOSE c \in 0 .. Power(2, RateScale) * CoeffScale :
             /\ Power(c, 0 - k) <= Power(2, RateScale) * Power(CoeffScale, 0 - k)
             /\ Power(c + 1, 0 - k) > Power(2, RateScale) * Power(CoeffScale, 0 - k)

\* The op-amp filter coefficient update() computes.
FilterCoeff(simSamplingRateHz) ==
    IF opAmpList # <<>> /\ tunables.opAmpSlewRateHalfLifeSeconds > 0
    THEN HalfLifeCoeff(simSamplingRateHz * tunables.opAmpSlewRateHalfLifeSeconds)
    ELSE 0

\* The running total of the results of the simulation steps of one update.
Accumulated(result, stepResult) ==
    [adjustNodeVoltagesCount |-> result.adjustNodeVoltagesCount + stepResult.adjustNodeVoltagesCount,
     currentUpdates |-> result.currentUpdates + stepResult.currentUpdates,
     score |-> stepResult.score, exit |-> stepResult.exit]

\* The oversampling loop of update from step on; result accumulates.
RECURSIVE StepLoop(_, _, _, _, _, _)
RECURSIVE Stepped(_, _, _, _, _, _)
StepLoop(d, simRate, coeff, factor, step, result) ==
    IF step >= factor THEN [d |-> d, outcome |-> "ok", result |-> result]
    ELSE Stepped(simulationStep(d, simRate, coeff), simRate, coeff, factor, step, result)

\* The oversampling loop after simulationStep has left s in step.
Stepped(s, simRate, coeff, factor, step, result) ==
    IF s.outcome # "ok" THEN s
    ELSE StepLoop(LatchComparators(s.d, 1), simRate, coeff, factor, step + 1,
                  Accumulated(result, s.result))

\* The body of update() for a positive rate: [d, outcome, result].
RunUpdate(d, audioSampleRateHz, factor) ==
    StepLoop(LatchComparators(d, 1), factor * audioSampleRateHz,
             FilterCoeff(factor * audioSampleRateHz), factor, 0, NoResult)

\* A node as createForcedVoltageNode(voltage) leaves it.
ForcedNode(voltage) ==
    [Node EXCEPT !.forced = TRUE, !.voltage = [i \in 1 .. VOLTAGE_HISTORY |-> voltage]]

\* Node i (1-based) is the output of some op-amp.
IsOpAmpOutput(i) == \E k \in 1 .. Len(opAmpList) : opAmpList[k].outNodeIndex = i - 1

\* Node i (1-based) is the output of some comparator.
IsComparatorOutput(i) ==
    \E k \in 1 .. Len(comparatorList) : comparatorList[k].outNodeIndex = i - 1

\* Node i (1-based) is an externally written source: forced, and no op-amp's or
\* comparator's output.
IsSource(i) == nodeList[i].forced /\ ~IsOpAmpOutput(i) /\ ~IsComparatorOutput(i)

\* The circuit as its builder calls left it: same topology, values and source
\* voltages, everything else as constructed.
FreshDynamic ==
    [nodeList |-> [i \in 1 .. Len(nodeList) |->
                      IF IsSource(i) THEN ForcedNode(nodeList[i].voltage[1])
                      ELSE [Node EXCEPT !.forced = nodeList[i].forced]],
     resistorList |-> [i \in 1 .. Len(resistorList) |->
                          Resistor(resistorList[i].resistance, resistorList[i].aNodeIndex,
                                   resistorList[i].bNodeIndex)],
     capacitorList |-> [i \in 1 .. Len(capacitorList) |->
                           Capacitor(capacitorList[i].capacitance, capacitorList[i].aNodeIndex,
                                     capacitorList[i].bNodeIndex)],
     opAmpList |-> [i \in 1 .. Len(opAmpList) |->
                       OpAmp(opAmpList[i].posNodeIndex, opAmpList[i].negNodeIndex,
                             opAmpList[i].outNodeIndex)],
     comparatorList |-> comparatorList,
     totalCurrentUpdates |-> 0,
     totalAdjustNodeVoltagesCount |-> 0,
     steps |-> <<>>]

\* What the caller sees of an update that has left u.
Observed(u) ==
    [outcome |-> u.outcome, result |-> u.result,
     voltage |-> [i \in 1 .. Len(u.d.nodeList) |-> u.d.nodeList[i].voltage[1]]]

\* The first update of the circuit as just built.
FreshUpdate(audioSampleRateHz, factor) ==
    Observed(RunUpdate(FreshDynamic, audioSampleRateHz, factor))

\* The rates update() rejects only when they are zero.
RateRejectedOnlyIfZero(audioSampleRateHz) == audioSampleRateHz = 0
\* The rates update() rejects with std::range_error.
RateRejected(audioSampleRateHz) == audioSampleRateHz <= 0

\* totalSamples counted once per simulation step.
SamplesCountedPerStep(factor) == factor
\* What one returning update() adds to totalSamples.
SamplesCounted(factor) == 1

\* The caller's bookkeeping of an update that has left outcome and result.
NotedUpdate(outcome, result, fresh) ==
    IF outcome = "ok"
    THEN [Counted EXCEPT
             !.fresh = fresh,
             !.updatesReturned = @ + 1,
             !.sumAdjustNodeVoltagesCount = @ + result.adjustNodeVoltagesCount,
             !.sumCurrentUpdates = @ + result.currentUpdates]
    ELSE IF outcome \in {"range_error", "logic_error"}
    THEN [Counted EXCEPT !.fresh = fresh, !.updatesRaised = @ + 1]
    ELSE [Counted EXCEPT !.fresh = fresh]

\* The last n elements of the sequence s.
LastOf(s, n) == IF Len(s) <= n THEN s ELSE SubSeq(s, Len(s) - n + 1, Len(s))

\* The caller's bookkeeping h with what the update that has left u leaves in the nodes.
Trailed(h, u) ==
    [h EXCEPT !.trail =
        IF u.outcome = "ok"
        THEN LastOf(Append(history.trail,
                           [voltage |-> Observed(u).voltage, steps |-> Len(u.d.steps)]),
                    VOLTAGE_HISTORY)
        ELSE <<>>]

\* update() past its range check, the simulation steps of its factor having left u.
Updated(u, audioSampleRateHz, factor, fresh) ==
    /\ nodeList' = u.d.nodeList
    /\ resistorList' = u.d.resistorList
    /\ capacitorList' = u.d.capacitorList
    /\ opAmpList' = u.d.opAmpList
    /\ totalCurrentUpdates' = u.d.totalCurrentUpdates
    /\ totalAdjustNodeVoltagesCount' = u.d.totalAdjustNodeVoltagesCount
    /\ opAmpFilterCoeff' = FilterCoeff(factor * audioSampleRateHz)
    /\ totalSamples' =
           IF u.outcome = "ok" THEN totalSamples + SamplesCounted(factor) ELSE totalSamples
    /\ simulationTime' =
           IF u.outcome = "ok"
           THEN simulationTime + RoundDiv(TimeScale * RateScale, audioSampleRateHz)
           ELSE simulationTime
    /\ lastCall' = [op |-> "update", arg |-> audioSampleRateHz,
                    outcome |-> u.outcome, result |-> u.result, steps |-> u.d.steps]
    /\ history' = Trailed(NotedUpdate(u.outcome, u.result, fresh), u)
    /\ UNCHANGED <<isLocked, comparatorList, tunables>>

\* update() checks no lock: it also runs on a circuit that is still being built.
\* The updates followed are those of at most MaxSteps simulation steps.
update(audioSampleRateHz) ==
    /\ Running
    /\ history.calls < history.limit
    /\ IF RateRejected(audioSampleRateHz)
       THEN /\ lastCall' = CallWith("update", audioSampleRateHz, "range_error")
            /\ UNCHANGED circuitVars
            /\ history' = NotedUpdate("range_error", NoResult, NoFresh)
       ELSE \E factor \in OversampleFactors(audioSampleRateHz) :
                /\ factor <= MaxSteps
                /\ Updated(RunUpdate(Dynamic, audioSampleRateHz, factor),
                           audioSampleRateHz, factor,
                           IF lastCall.op = "initialize"
                           THEN FreshUpdate(audioSampleRateHz, factor)
                           ELSE NoFresh)

(***************************************************************************)
(* initialize() and the accessors.                                          *)
(***************************************************************************)
\* Node::initialize()
NodeInitialize(n) ==
    IF ~n.forced THEN [n EXCEPT !.voltage = [i \in 1 .. VOLTAGE_HISTORY |-> 0]] ELSE n

\* The value initialize() leaves in totalCurrentUpdates.
InitializedCurrentUpdates == totalCurrentUpdates

\* initialize() checks no lock either.
initialize ==
    /\ Running
    /\ history.calls < history.limit
    /\ totalAdjustNodeVoltagesCount' = 0
    /\ totalSamples' = 0
    /\ simulationTime' = 0
    /\ totalCurrentUpdates' = InitializedCurrentUpdates
    /\ resistorList' = [i \in 1 .. Len(resistorList) |-> [resistorList[i] EXCEPT !.current = 0]]
    /\ capacitorList' =
           [i \in 1 .. Len(capacitorList) |-> [capacitorList[i] EXCEPT !.current = <<0, 0>>]]
    /\ opAmpList' =
           [i \in 1 .. Len(opAmpList) |->
               [opAmpList[i] EXCEPT !.current = 0, !.voltage = <<0, 0>>]]
    /\ nodeList' = [i \in 1 .. Len(nodeList) |-> NodeInitialize(nodeList[i])]
    /\ lastCall' = Call("initialize", "ok")
    /\ history' = [NoHistory EXCEPT !.calls = history.calls + 1, !.limit = history.limit]
    /\ UNCHANGED <<isLocked, comparatorList, tunables, opAmpFilterCoeff>>

\* nodeVoltage(nodeIndex) = voltage: a write through the returned reference.
nodeVoltage(nodeIndex, voltage) ==
    /\ CallAllowed
    /\ history' = Noted
    /\ IF ~confirmLocked
       THEN Raises("nodeVoltage", "lock_error")
       ELSE IF ~v(nodeIndex)
       THEN Raises("nodeVoltage", "out_of_range")
       ELSE /\ nodeList' = [nodeList EXCEPT ![nodeIndex + 1].voltage[1] = voltage]
            /\ lastCall' = Call("nodeVoltage", "ok")
            /\ UNCHANGED <<isLocked, resistorList, capacitorList, opAmpList, comparatorList, tunables>>
            /\ UnchangedCounters

\* The component counts the circuit reports.
getNodeCount == Len(nodeList)
getResistorCount == Len(resistorList)
getCapacitorCount == Len(capacitorList)
getOpAmpCount == Len(opAmpList)
\* The linear amps are the op-amps with a grounded positive input.
getLinearAmpCount ==
    Cardinality({k \in 1 .. Len(opAmpList) : opAmpList[k].posNodeIndex = GroundedInput})
getComparatorCount == Len(comparatorList)

\* resistor(index), capacitor(index), opAmp(index): a reference that is only read.
Accessor(op, index, list) ==
    /\ CallAllowed
    /\ history' = Noted
    /\ IF ~confirmLocked
       THEN Raises(op, "lock_error")
       ELSE IF ~(index >= 0 /\ index < Len(list))
       THEN Raises(op, "out_of_range")
       ELSE Raises(op, "ok")

resistor(index) == Accessor("resistor", index, resistorList)

capacitor(index) == Accessor("capacitor", index, capacitorList)

opAmp(index) == Accessor("opAmp", index, opAmpList)

(***************************************************************************)
(* The specification: a caller that builds a circuit from nothing, locks    *)
(* it and goes on calling.                                                  *)
(***************************************************************************)
\* What a circuit under construction is configured with and updated at: the
\* default retry limit, and the choices that take an update through one or two
\* simulation steps.
BuilderTunableChoices ==
    {t \in TunableChoices : /\ t.minInternalSamplingRate < INT_MAX
                            /\ t.retryLimit = DefaultTunables.retryLimit}
BuilderSampleRates == {rate \in AudioSampleRates : rate <= 0 \/ rate >= RateScale}

\* The circuits followed have at most MaxNodes nodes, MaxResistors resistors,
\* MaxCapacitors capacitors and MaxOpAmps op-amps.
NodesLeft == confirmUnlocked => Len(nodeList) < MaxNodes
ResistorsLeft == confirmUnlocked => Len(resistorList) < MaxResistors
CapacitorsLeft == confirmUnlocked => Len(capacitorList) < MaxCapacitors
OpAmpsLeft == confirmUnlocked => Len(opAmpList) < MaxOpAmps

Next ==
    \/ \E t \in BuilderTunableChoices : Configure(t) /\ UNCHANGED torporSlothCircuit
    \/ lock /\ UNCHANGED torporSlothCircuit
    \/ NodesLeft /\ createNode /\ UNCHANGED torporSlothCircuit
    \/ \E i \in NodeIndices : allocateForcedVoltageNode(i) /\ UNCHANGED torporSlothCircuit
    \/ \E voltage \in SourceVoltages \ {0} : NodesLeft /\ createForcedVoltageNode(voltage) /\ UNCHANGED torporSlothCircuit
    \/ NodesLeft /\ createGroundNode /\ UNCHANGED torporSlothCircuit
    \/ \E r \in Resistances, p \in NodePairs : ResistorsLeft /\ addResistor(r, p[1], p[2]) /\ UNCHANGED torporSlothCircuit
    \/ \E c \in Capacitances, p \in NodePairs : CapacitorsLeft /\ addCapacitor(c, p[1], p[2]) /\ UNCHANGED torporSlothCircuit
    \/ \E pos \in NodeIndices, neg \in NodeIndices, out \in NodeIndices :
           OpAmpsLeft /\ addOpAmp(pos, neg, out) /\ UNCHANGED torporSlothCircuit
    \/ \E rate \in BuilderSampleRates : update(rate) /\ UNCHANGED torporSlothCircuit
    \/ initialize /\ UNCHANGED torporSlothCircuit
    \/ \E i \in NodeIndices, voltage \in SourceVoltages : nodeVoltage(i, voltage) /\ UNCHANGED torporSlothCircuit
    \/ \E i \in 0 .. 1 : resistor(i) /\ UNCHANGED torporSlothCircuit
    \/ \E i \in 0 .. 1 : capacitor(i) /\ UNCHANGED torporSlothCircuit
    \/ \E i \in 0 .. 1 : opAmp(i) /\ UNCHANGED torporSlothCircuit

Spec == Init /\ [][Next]_vars

(***************************************************************************)
(* The circuits of the unit tests, as their builder calls leave them at      *)
(* lock(), with component values in the model's units.                      *)
(***************************************************************************)
\* UnitTest_VoltageDivider: np, n1, n2, ng.
VoltageDivider ==
    [nodeList |-> <<ForcedNode(6), Node, Node, ForcedNode(0)>>,
     resistorList |-> <<Resistor(1, 0, 1), Resistor(2, 1, 2), Resistor(2, 1, 2), Resistor(1, 2, 3)>>,
     capacitorList |-> <<>>,
     opAmpList |-> <<>>]

\* UnitTest_ResistorCapacitorTimeConstant: n0, n1, n2.
ResistorCapacitorTimeConstant ==
    [nodeList |-> <<ForcedNode(6), Node, ForcedNode(0)>>,
     resistorList |-> <<Resistor(1, 0, 1)>>,
     capacitorList |-> <<Capacitor(1, 1, 2)>>,
     opAmpList |-> <<>>]

\* UnitTest_ResistorFeedback: n0, n1, n2, ng.
ResistorFeedback ==
    [nodeList |-> <<[Node EXCEPT !.forced = TRUE], Node, [Node EXCEPT !.forced = TRUE], ForcedNode(0)>>,
     resistorList |-> <<Resistor(1, 0, 1), Resistor(4, 1, 2)>>,
     capacitorList |-> <<>>,
     opAmpList |-> <<OpAmp(3, 1, 2)>>]

\* The integrator stage of TorporSlothCircuit (U3 with C1 across it), fed from a source.
Integrator ==
    [nodeList |-> <<ForcedNode(6), Node, [Node EXCEPT !.forced = TRUE], ForcedNode(0)>>,
     resistorList |-> <<Resistor(1, 0, 1)>>,
     capacitorList |-> <<Capacitor(1, 1, 2)>>,
     opAmpList |-> <<OpAmp(3, 1, 2)>>]

\* One unforced node fed from a source through a resistor so large that the
\* solver's deltaVoltage probes are lost to rounding.
LargeResistor ==
    [nodeList |-> <<Node, ForcedNode(6)>>,
     resistorList |-> <<Resistor(4, 0, 1)>>,
     capacitorList |-> <<>>,
     opAmpList |-> <<>>]

\* An op-amp driven into saturation by a source at its positive input, its
\* output loaded by a resistor to ground: n0, n1, ng.
SaturatedOpAmp ==
    [nodeList |-> <<ForcedNode(6), [Node EXCEPT !.forced = TRUE], ForcedNode(0)>>,
     resistorList |-> <<Resistor(1, 1, 2)>>,
     capacitorList |-> <<>>,
     opAmpList |-> <<OpAmp(0, 2, 1)>>]

TestCircuits == {VoltageDivider, ResistorCapacitorTimeConstant, ResistorFeedback, Integrator,
                 LargeResistor, SaturatedOpAmp}

TestInit ==
    /\ isLocked = TRUE
    /\ \E c \in TestCircuits :
           /\ nodeList = c.nodeList
           /\ resistorList = c.resistorList
           /\ capacitorList = c.capacitorList
           /\ opAmpList = c.opAmpList
    /\ comparatorList = <<>>
    /\ totalAdjustNodeVoltagesCount = 0
    /\ totalCurrentUpdates = 0
    /\ totalSamples = 0
    /\ simulationTime = 0
    /\ opAmpFilterCoeff = 0
    /\ tunables \in TunableChoices
    /\ torporSlothCircuit = NoTorporSlothCircuit
    /\ lastCall = Call("lock", "ok")
    /\ history = [NoHistory EXCEPT !.limit = MaxCalls]

TestNext ==
    \/ \E rate \in AudioSampleRates : update(rate) /\ UNCHANGED torporSlothCircuit
    \/ initialize /\ UNCHANGED torporSlothCircuit
    \/ \E i \in 0 .. 1, voltage \in SourceVoltages : nodeVoltage(i, voltage) /\ UNCHANGED torporSlothCircuit

TestSpec == TestInit /\ [][TestNext]_vars

(***************************************************************************)
(* Circuits with a comparator, as their builder calls leave them at lock().  *)
(***************************************************************************)
\* A comparator whose output feeds its own input through a divider:
\* n0, the comparator's output n1, ground; addComparator(n0, n1).
ComparatorDivider ==
    [nodeList |-> <<Node, [Node EXCEPT !.forced = TRUE], ForcedNode(0)>>,
     resistorList |-> <<Resistor(1, 0, 1), Resistor(1, 0, 2)>>,
     capacitorList |-> <<>>,
     opAmpList |-> <<>>,
     comparatorList |-> <<Comparator(0, 1)>>]

\* The same with a capacitor across the lower resistor.
ComparatorOscillator ==
    [nodeList |-> <<Node, [Node EXCEPT !.forced = TRUE], ForcedNode(0)>>,
     resistorList |-> <<Resistor(1, 0, 1), Resistor(1, 0, 2)>>,
     capacitorList |-> <<Capacitor(1, 0, 2)>>,
     opAmpList |-> <<>>,
     comparatorList |-> <<Comparator(0, 1)>>]

\* A comparator that reads a source through a divider and drives a load:
\* source n0, n1, the comparator's output n2, n3, ground; addComparator(n1, n2).
ComparatorOnSource ==
    [nodeList |-> <<ForcedNode(6), Node, [Node EXCEPT !.forced = TRUE], Node, ForcedNode(0)>>,
     resistorList |-> <<Resistor(1, 0, 1), Resistor(1, 1, 4), Resistor(1, 2, 3), Resistor(1, 3, 4)>>,
     capacitorList |-> <<>>,
     opAmpList |-> <<>>,
     comparatorList |-> <<Comparator(1, 2)>>]

ComparatorCircuits == {ComparatorDivider, ComparatorOscillator, ComparatorOnSource}

ComparatorInit ==
    /\ isLocked = TRUE
    /\ \E c \in ComparatorCircuits :
           /\ nodeList = c.nodeList
           /\ resistorList = c.resistorList
           /\ capacitorList = c.capacitorList
           /\ opAmpList = c.opAmpList
           /\ comparatorList = c.comparatorList
    /\ totalAdjustNodeVoltagesCount = 0
    /\ totalCurrentUpdates = 0
    /\ totalSamples = 0
    /\ simulationTime = 0
    /\ opAmpFilterCoeff = 0
    /\ tunables \in TunableChoices
    /\ torporSlothCircuit = NoTorporSlothCircuit
    /\ lastCall = Call("lock", "ok")
    /\ history = [NoHistory EXCEPT !.limit = MaxCalls]

ComparatorSpec == ComparatorInit /\ [][TestNext]_vars

(***************************************************************************)
(* TorporSlothCircuit (src/src/torpor_sloth_circuit.hpp).  Its constructor   *)
(* makes the builder calls below one after the other, locks the circuit,    *)
(* takes its pointers and sets the tolerance; a call that throws ends the   *)
(* construction.  Its addLinearAmp and addComparator are not in the         *)
(* circuit.hpp of src/: they follow spec.md, section 4.1, a linear amp      *)
(* being an op-amp of circuit.hpp whose positive input is grounded.         *)
(* Resistances are in units of 10 kOhm / KnobScale, the knob fraction in    *)
(* 1/KnobScale, capacitances in microfarads.                                *)
(***************************************************************************)
KnobScale == 4

\* A resistance given in kOhm, in the model's unit.
KiloOhms(k) == (k * KnobScale) \div 10

\* Node i is an input of an amp or a comparator already added.
IsActiveDeviceInput(i) ==
    \/ \E k \in 1 .. Len(opAmpList) :
           opAmpList[k].negNodeIndex = i \/ opAmpList[k].posNodeIndex = i
    \/ \E k \in 1 .. Len(comparatorList) : comparatorList[k].negNodeIndex = i

addLinearAmp(negNodeIndex, outNodeIndex) ==
    /\ CallAllowed
    /\ history' = Noted
    /\ IF ~confirmUnlocked
       THEN Raises("addLinearAmp", "lock_error")
       ELSE IF ~(v(negNodeIndex) /\ v(outNodeIndex))
       THEN Raises("addLinearAmp", "out_of_range")
       ELSE IF comparatorList # <<>>
                 \/ IsActiveDeviceInput(negNodeIndex) \/ IsActiveDeviceInput(outNodeIndex)
       THEN Raises("addLinearAmp", "order_error")
       ELSE IF AlreadyForced(nodeList[outNodeIndex + 1])
       THEN Raises("addLinearAmp", "already_forced")
       ELSE /\ nodeList' = [nodeList EXCEPT ![outNodeIndex + 1].forced = TRUE]
            /\ opAmpList' = Append(opAmpList, OpAmp(GroundedInput, negNodeIndex, outNodeIndex))
            /\ lastCall' = Call("addLinearAmp", "ok")
            /\ UNCHANGED <<isLocked, resistorList, capacitorList, comparatorList, tunables>>
            /\ UnchangedCounters

addComparator(negNodeIndex, outNodeIndex) ==
    /\ CallAllowed
    /\ history' = Noted
    /\ IF ~confirmUnlocked
       THEN Raises("addComparator", "lock_error")
       ELSE IF ~(v(negNodeIndex) /\ v(outNodeIndex))
       THEN Raises("addComparator", "out_of_range")
       ELSE IF IsActiveDeviceInput(outNodeIndex)
       THEN Raises("addComparator", "order_error")
       ELSE IF AlreadyForced(nodeList[outNodeIndex + 1])
       THEN Raises("addComparator", "already_forced")
       ELSE /\ nodeList' = [nodeList EXCEPT ![outNodeIndex + 1].forced = TRUE]
            /\ comparatorList' = Append(comparatorList, Comparator(negNodeIndex, outNodeIndex))
            /\ lastCall' = Call("addComparator", "ok")
            /\ UNCHANGED <<isLocked, resistorList, capacitorList, opAmpList, tunables>>
            /\ UnchangedCounters

\* A call of the constructor: a and b are its node arguments, value its
\* resistance, capacitance or voltage, keep whether its return value is kept
\* as variableResistorIndex.
BuilderCall(op, value, a, b) == [op |-> op, value |-> value, a |-> a, b |-> b, keep |-> FALSE]

\* The calls of the constructor in order.  Each create call returns the index
\* of the node it appends: ng = 0, n1 = 1, ..., n8 = 8, n9 = 9.
TorporCalls ==
    <<BuilderCall("createGroundNode", 0, 0, 0),
      BuilderCall("createNode", 0, 0, 0), BuilderCall("createNode", 0, 0, 0),
      BuilderCall("createNode", 0, 0, 0), BuilderCall("createNode", 0, 0, 0),
      BuilderCall("createNode", 0, 0, 0), BuilderCall("createNode", 0, 0, 0),
      BuilderCall("createNode", 0, 0, 0), BuilderCall("createNode", 0, 0, 0),
      BuilderCall("createForcedVoltageNode", 0, 0, 0),
      BuilderCall("addLinearAmp", 0, 1, 2),
      BuilderCall("addLinearAmp", 0, 4, 5),
      BuilderCall("addLinearAmp", 0, 6, 7),
      BuilderCall("addComparator", 0, 7, 8),
      BuilderCall("addResistor", KiloOhms(1000), 1, 7),
      BuilderCall("addResistor", KiloOhms(4700), 1, 8),
      [BuilderCall("addResistor", KiloOhms(100), 1, 3) EXCEPT !.keep = TRUE],
      BuilderCall("addResistor", KiloOhms(100), 6, 7),
      BuilderCall("addResistor", KiloOhms(100), 5, 6),
      BuilderCall("addResistor", KiloOhms(100), 2, 3),
      BuilderCall("addResistor", KiloOhms(100), 3, 4),
      BuilderCall("addResistor", KiloOhms(470), 9, 6),
      BuilderCall("addCapacitor", 2, 1, 2),
      BuilderCall("addCapacitor", 1, 4, 5),
      BuilderCall("addCapacitor", 50, 3, 0),
      BuilderCall("lock", 0, 0, 0)>>

\* The builder operation that call c makes.
TorporCall(c) ==
    CASE c.op = "createGroundNode" -> createGroundNode
      [] c.op = "createNode" -> createNode
      [] c.op = "createForcedVoltageNode" -> createForcedVoltageNode(c.value)
      [] c.op = "addLinearAmp" -> addLinearAmp(c.a, c.b)
      [] c.op = "addComparator" -> addComparator(c.a, c.b)
      [] c.op = "addResistor" -> addResistor(c.value, c.a, c.b)
      [] c.op = "addCapacitor" -> addCapacitor(c.value, c.a, c.b)
      [] c.op = "lock" -> lock

\* The constructor has returned.
Constructed == torporSlothCircuit.position = Len(TorporCalls) + 1

\* The next builder call of the constructor.
TorporBuild ==
    /\ torporSlothCircuit.position >= 0
    /\ torporSlothCircuit.position < Len(TorporCalls)
    /\ TorporCall(TorporCalls[torporSlothCircuit.position + 1])
    /\ torporSlothCircuit' =
           [torporSlothCircuit EXCEPT
               !.position = IF lastCall'.outcome = "ok" THEN @ + 1 ELSE 0 - 1,
               !.variableResistorIndex =
                   IF TorporCalls[torporSlothCircuit.position + 1].keep
                        /\ lastCall'.outcome = "ok"
                   THEN Len(resistorList') - 1 ELSE @]

\* The end of the constructor, after lock(): the pointers taken through
\* resistor(i) and nodeVoltage(i), and the tolerance, 1.0e-4 A, set to the
\* model's resolution of a current.
TorporPointers ==
    /\ Running
    /\ torporSlothCircuit.position = Len(TorporCalls)
    /\ IF ~confirmLocked
       THEN /\ Raises("TorporSlothCircuit", "lock_error")
            /\ torporSlothCircuit' = [torporSlothCircuit EXCEPT !.position = 0 - 1]
       ELSE IF ~(/\ torporSlothCircuit.variableResistorIndex >= 0
                 /\ torporSlothCircuit.variableResistorIndex < Len(resistorList)
                 /\ v(9) /\ v(2) /\ v(5) /\ v(7))
       THEN /\ Raises("TorporSlothCircuit", "out_of_range")
            /\ torporSlothCircuit' = [torporSlothCircuit EXCEPT !.position = 0 - 1]
       ELSE /\ torporSlothCircuit' =
                   [torporSlothCircuit EXCEPT
                       !.position = @ + 1,
                       !.variableResistance = torporSlothCircuit.variableResistorIndex,
                       !.controlVoltage = 9,
                       !.xNodeVoltage = 2,
                       !.yNodeVoltage = 5,
                       !.zNodeVoltage = 7]
            /\ tunables' = [tunables EXCEPT !.scoreTolerance = 1]
            /\ lastCall' = Call("TorporSlothCircuit", "ok")
            /\ UNCHANGED <<isLocked, nodeList, resistorList, capacitorList, opAmpList,
                           comparatorList>>
            /\ UnchangedCounters
    /\ UNCHANGED history

Min(a, b) == IF b < a THEN b ELSE a

\* The knob fraction taken as it comes.
setKnobPositionUnclamped(fraction) ==
    /\ Constructed
    /\ CallAllowed
    /\ history' = Noted
    /\ resistorList' =
           [resistorList EXCEPT ![torporSlothCircuit.variableResistance + 1].resistance =
               KiloOhms(100) + RoundDiv(fraction * KiloOhms(10), KnobScale)]
    /\ lastCall' = CallWith("setKnobPosition", fraction, "ok")
    /\ UNCHANGED <<isLocked, nodeList, capacitorList, opAmpList, comparatorList, tunables,
                   torporSlothCircuit>>
    /\ UnchangedCounters
\* setKnobPosition(fraction), fraction in 1/KnobScale.
setKnobPosition(fraction) ==
    /\ Constructed
    /\ CallAllowed
    /\ history' = Noted
    /\ resistorList' =
           [resistorList EXCEPT ![torporSlothCircuit.variableResistance + 1].resistance =
               KiloOhms(100) + RoundDiv(Max(0, Min(KnobScale, fraction)) * KiloOhms(10), KnobScale)]
    /\ lastCall' = CallWith("setKnobPosition", fraction, "ok")
    /\ UNCHANGED <<isLocked, nodeList, capacitorList, opAmpList, comparatorList, tunables,
                   torporSlothCircuit>>
    /\ UnchangedCounters

\* The control voltage taken as it comes.
setControlVoltageUnclamped(cv) ==
    /\ Constructed
    /\ CallAllowed
    /\ history' = Noted
    /\ nodeList' = [nodeList EXCEPT ![torporSlothCircuit.controlVoltage + 1].voltage[1] = cv]
    /\ lastCall' = CallWith("setControlVoltage", cv, "ok")
    /\ UNCHANGED <<isLocked, resistorList, capacitorList, opAmpList, comparatorList, tunables,
                   torporSlothCircuit>>
    /\ UnchangedCounters
\* setControlVoltage(cv), cv in volts.
setControlVoltage(cv) ==
    /\ Constructed
    /\ CallAllowed
    /\ history' = Noted
    /\ nodeList' =
           [nodeList EXCEPT ![torporSlothCircuit.controlVoltage + 1].voltage[1] =
               Max(VNEG, Min(VPOS, cv))]
    /\ lastCall' = CallWith("setControlVoltage", cv, "ok")
    /\ UNCHANGED <<isLocked, resistorList, capacitorList, opAmpList, comparatorList, tunables,
                   torporSlothCircuit>>
    /\ UnchangedCounters

\* What the knob and the control voltage are set to: fractions below 0, in
\* [0, 1] and above 1, voltages below, between and above the rails.
KnobFractions == {0 - 1, 0, 1, 2, KnobScale, KnobScale + 1}
ControlVoltages == {VNEG - 1, VNEG, 0 - 1, 0, 6, VPOS, VPOS + 1}

TorporInit ==
    /\ isLocked = FALSE
    /\ nodeList = <<>>
    /\ resistorList = <<>>
    /\ capacitorList = <<>>
    /\ opAmpList = <<>>
    /\ comparatorList = <<>>
    /\ totalAdjustNodeVoltagesCount = 0
    /\ totalCurrentUpdates = 0
    /\ totalSamples = 0
    /\ simulationTime = 0
    /\ opAmpFilterCoeff = 0
    /\ tunables = DefaultTunables
    /\ torporSlothCircuit = NoTorporSlothCircuit
    /\ lastCall = Call("construct", "ok")
    /\ history = [NoHistory EXCEPT !.limit = MaxCalls]

TorporNext ==
    \/ TorporBuild
    \/ TorporPointers
    \/ \E fraction \in KnobFractions : setKnobPosition(fraction)
    \/ \E cv \in ControlVoltages : setControlVoltage(cv)
    \/ \E rate \in AudioSampleRates : Constructed /\ update(rate) /\ UNCHANGED torporSlothCircuit
    \/ Constructed /\ initialize /\ UNCHANGED torporSlothCircuit

TorporSpec == TorporInit /\ [][TorporNext]_vars

(***************************************************************************)
(* A chain of three resistors from a source to ground, as its builder calls  *)
(* leave it at lock(), with a caller that sets deltaVoltage before updating. *)
(***************************************************************************)
\* createForcedVoltageNode(6), createNode() twice, createGroundNode(), and a
\* resistor from each node to the next: np, n1, n2, ng.
ResistorChain ==
    [nodeList |-> <<ForcedNode(6), Node, Node, ForcedNode(0)>>,
     resistorList |-> <<Resistor(4, 0, 1), Resistor(2, 1, 2), Resistor(2, 2, 3)>>,
     capacitorList |-> <<>>,
     opAmpList |-> <<>>]

\* The values the caller assigns to the public field deltaVoltage.
ChainDeltaVoltages == {1, 2}

\* The caller assigns deltaVoltage; the field is public and lock() does not guard it.
setDeltaVoltage(deltaVoltage) ==
    /\ Running
    /\ tunables' = [tunables EXCEPT !.deltaVoltage = deltaVoltage]
    /\ lastCall' = Call("deltaVoltage", "ok")
    /\ UNCHANGED <<isLocked, nodeList, resistorList, capacitorList, opAmpList, comparatorList,
                   history>>
    /\ UnchangedCounters

ChainInit ==
    /\ isLocked = TRUE
    /\ nodeList = ResistorChain.nodeList
    /\ resistorList = ResistorChain.resistorList
    /\ capacitorList = ResistorChain.capacitorList
    /\ opAmpList = ResistorChain.opAmpList
    /\ comparatorList = <<>>
    /\ totalAdjustNodeVoltagesCount = 0
    /\ totalCurrentUpdates = 0
    /\ totalSamples = 0
    /\ simulationTime = 0
    /\ opAmpFilterCoeff = 0
    /\ tunables = DefaultTunables
    /\ torporSlothCircuit = NoTorporSlothCircuit
    /\ lastCall = Call("lock", "ok")
    /\ history = [NoHistory EXCEPT !.limit = MaxCalls]

ChainNext ==
    \/ \E deltaVoltage \in ChainDeltaVoltages :
           setDeltaVoltage(deltaVoltage) /\ UNCHANGED torporSlothCircuit
    \/ \E rate \in AudioSampleRates : update(rate) /\ UNCHANGED torporSlothCircuit
    \/ initialize /\ UNCHANGED torporSlothCircuit
    \/ \E i \in 0 .. 1, voltage \in SourceVoltages : nodeVoltage(i, voltage) /\ UNCHANGED torporSlothCircuit

ChainSpec == ChainInit /\ [][ChainNext]_vars

(***************************************************************************)
(* What the properties below talk about.                                    *)
(***************************************************************************)
BuilderOps == {"createNode", "createForcedVoltageNode", "createGroundNode",
               "addResistor", "addCapacitor", "addOpAmp"}

AccessorOps == {"nodeVoltage", "resistor", "capacitor", "opAmp"}

\* The number and order of nodes and components, every component's node
\* indices, and every node's forced flag.
Topology ==
    [forced |-> [i \in 1 .. Len(nodeList) |-> nodeList[i].forced],
     resistors |-> [i \in 1 .. Len(resistorList) |->
                       <<resistorList[i].aNodeIndex, resistorList[i].bNodeIndex>>],
     capacitors |-> [i \in 1 .. Len(capacitorList) |->
                        <<capacitorList[i].aNodeIndex, capacitorList[i].bNodeIndex>>],
     opAmps |-> [i \in 1 .. Len(opAmpList) |->
                    <<opAmpList[i].posNodeIndex, opAmpList[i].negNodeIndex,
                      opAmpList[i].outNodeIndex>>]]

\* The component values.
ComponentValues ==
    [resistances |-> [i \in 1 .. Len(resistorList) |-> resistorList[i].resistance],
     capacitances |-> [i \in 1 .. Len(capacitorList) |-> capacitorList[i].capacitance]]

\* The current into node i (1-based) through the resistors and capacitors at
\* the voltages now in the nodes, at internal sampling rate simRate.
RECURSIVE ResistorsInto(_, _)
ResistorsInto(i, k) ==
    IF k > Len(resistorList) THEN 0
    ELSE LET r == resistorList[k]
             flow == RoundDiv(nodeList[r.aNodeIndex + 1].voltage[1]
                              - nodeList[r.bNodeIndex + 1].voltage[1], r.resistance)
         IN  (IF r.bNodeIndex = i - 1 THEN flow ELSE 0)
             - (IF r.aNodeIndex = i - 1 THEN flow ELSE 0)
             + ResistorsInto(i, k + 1)

RECURSIVE CapacitorsInto(_, _, _)
CapacitorsInto(i, simRate, k) ==
    IF k > Len(capacitorList) THEN 0
    ELSE LET c == capacitorList[k]
             a == nodeList[c.aNodeIndex + 1]
             b == nodeList[c.bNodeIndex + 1]
             flow == 2 * RoundDiv(c.capacitance * simRate
                                    * ((a.voltage[1] - b.voltage[1])
                                         - (a.voltage[2] - b.voltage[2])),
                                  RateScale)
                     - c.current[2]
         IN  (IF c.bNodeIndex = i - 1 THEN flow ELSE 0)
             - (IF c.aNodeIndex = i - 1 THEN flow ELSE 0)
             + CapacitorsInto(i, simRate, k + 1)

NetCurrent(i, simRate) == ResistorsInto(i, 1) + CapacitorsInto(i, simRate, 1)

\* The last call was an update that returned.
UpdateReturned == lastCall.op = "update" /\ lastCall.outcome = "ok"

\* The internal sampling rate of the last simulation step of the last update.
LastSimRate == lastCall.steps[Len(lastCall.steps)].simRate

\* Every unforced node's net current is within the tolerance after the last update.
NetCurrentsWithinTolerance ==
    LET simRate == LastSimRate
    IN  \A i \in 1 .. Len(nodeList) :
            nodeList[i].forced \/ Abs(NetCurrent(i, simRate)) <= tunables.scoreTolerance

(***************************************************************************)
(* Properties.                                                              *)
(***************************************************************************)
\* C1: once the circuit is locked, every call of createNode,
\* createForcedVoltageNode, createGroundNode, addResistor, addCapacitor or
\* addOpAmp fails with the lock-state error and leaves the node list, the
\* component lists and every other field of the circuit as they were.
C1_BuilderFailsWhenLocked ==
    [][(isLocked /\ lastCall'.op \in BuilderOps)
          => (lastCall'.outcome = "lock_error" /\ UNCHANGED circuitVars)]_vars

\* A builder call has failed on a locked circuit that has nodes and a resistor.
C1_Witness ==
    /\ isLocked
    /\ lastCall.op \in BuilderOps
    /\ lastCall.outcome = "lock_error"
    /\ nodeList # <<>>
    /\ resistorList # <<>>

\* C2: before lock(), nodeVoltage(i), resistor(i), capacitor(i) and opAmp(i)
\* fail with the lock-state error for every index, valid or not, and change
\* no state.
C2_AccessorFailsWhenUnlocked ==
    [][(~isLocked /\ lastCall'.op \in AccessorOps)
          => (lastCall'.outcome = "lock_error" /\ UNCHANGED circuitVars)]_vars

\* nodeVoltage has failed on an unlocked circuit that has the node asked for.
C2_Witness ==
    /\ ~isLocked
    /\ lastCall.op = "nodeVoltage"
    /\ lastCall.outcome = "lock_error"
    /\ nodeList # <<>>

\* C3: once locked the circuit stays locked, and no public operation changes
\* the number or order of nodes and components, a component's node indices or
\* a node's forced flag.
C3_LockFreezesTopology ==
    [][isLocked => (isLocked' /\ Topology' = Topology)]_vars

\* C4: update(r) with r <= 0 raises the range error and leaves every voltage,
\* every current and all four counters as they were.
C4_NonPositiveRateChangesNothing ==
    [][(lastCall'.op = "update" /\ lastCall'.arg <= 0)
          => (lastCall'.outcome = "range_error" /\ UNCHANGED circuitVars)]_vars

\* update was refused a non-positive rate on a circuit that has been solved before.
C4_Witness ==
    /\ lastCall.op = "update"
    /\ lastCall.arg <= 0
    /\ lastCall.outcome = "range_error"
    /\ totalSamples > 0
    /\ totalCurrentUpdates > 0

\* C5: an update that raises, for a non-positive rate or from inside the
\* solver, leaves totalSamples, totalAdjustNodeVoltagesCount,
\* totalCurrentUpdates and simulationTime at their values before the call.
C5_RaisingUpdateKeepsCounters ==
    [][(lastCall'.op = "update" /\ lastCall'.outcome \in {"range_error", "logic_error"})
          => UNCHANGED <<totalSamples, totalAdjustNodeVoltagesCount,
                         totalCurrentUpdates, simulationTime>>]_vars

\* C6: totalSamples is the number of update calls that have returned since
\* construction or since the last initialize(); failed updates and all other
\* operations leave it alone.
C6_TotalSamplesCountsReturnedUpdates == totalSamples = history.updatesReturned

\* Two updates have returned and one has raised.
C6_Witness ==
    /\ history.updatesReturned = 2
    /\ history.updatesRaised = 1
    /\ totalSamples = 2

\* C7: as long as every update since construction or the last initialize()
\* has returned, totalAdjustNodeVoltagesCount and totalCurrentUpdates are the
\* sums of the adjustNodeVoltagesCount and currentUpdates fields returned.
C7_TotalsAreSumsOfResults ==
    history.updatesRaised = 0
        => /\ totalAdjustNodeVoltagesCount = history.sumAdjustNodeVoltagesCount
           /\ totalCurrentUpdates = history.sumCurrentUpdates

\* C8: initialize() zeroes the four counters, every component current and the
\* voltage history of every node that is not a source, and leaves the lists,
\* connections, component values, forced flags, tunables and lock state alone.
C8_InitializeResetsDynamicState ==
    [][lastCall'.op = "initialize"
          => /\ totalAdjustNodeVoltagesCount' = 0
             /\ totalCurrentUpdates' = 0
             /\ totalSamples' = 0
             /\ simulationTime' = 0
             /\ \A i \in 1 .. Len(resistorList') : resistorList'[i].current = 0
             /\ \A i \in 1 .. Len(capacitorList') : capacitorList'[i].current = <<0, 0>>
             /\ \A i \in 1 .. Len(opAmpList') : opAmpList'[i].current = 0
             /\ \A i \in 1 .. Len(nodeList) :
                    IsSource(i) \/ nodeList'[i].voltage = <<0, 0, 0>>
             /\ Topology' = Topology
             /\ ComponentValues' = ComponentValues
             /\ UNCHANGED <<tunables, isLocked>>]_vars

\* C9: an update that follows initialize() leaves the node voltages, and
\* returns the SolutionResult, of the first update of a freshly built circuit
\* with the same topology, tunables and inputs.
C9_InitializeRoundTrip ==
    (lastCall.op = "update" /\ history.fresh.outcome # "none")
        => /\ lastCall.outcome = history.fresh.outcome
           /\ lastCall.result.adjustNodeVoltagesCount = history.fresh.result.adjustNodeVoltagesCount
           /\ lastCall.result.currentUpdates = history.fresh.result.currentUpdates
           /\ lastCall.result.score = history.fresh.result.score
           /\ \A i \in 1 .. Len(nodeList) : nodeList[i].voltage[1] = history.fresh.voltage[i]

\* C10, as stated: whenever update has returned, every unforced node's net
\* current at the voltages left is within the tolerance and the reported error
\* is below the tolerance.
C10_ReturnedUpdateIsSolved ==
    UpdateReturned
        => /\ NetCurrentsWithinTolerance
           /\ lastCall.result.score < tunables.scoreTolerance

\* C10, amended: whenever update has returned and reports an error below the
\* tolerance, every unforced node's net current at the voltages left is within
\* the tolerance.
C10_ReportedSolutionIsSolved ==
    (UpdateReturned /\ lastCall.result.score < tunables.scoreTolerance)
        => NetCurrentsWithinTolerance

\* update has returned from the solver's tolerance test on a circuit whose
\* unforced node carries a voltage.
C10_Witness ==
    /\ UpdateReturned
    /\ lastCall.result.exit = "tolerance"
    /\ lastCall.result.score < tunables.scoreTolerance
    /\ \E i \in 1 .. Len(nodeList) : ~nodeList[i].forced /\ nodeList[i].voltage[1] # 0

\* Every resistor's and capacitor's current field is what the evaluator computes
\* from the voltages now in the nodes, at the rate of the last update.
ResistorCurrentsMatchVoltages ==
    \A k \in 1 .. Len(resistorList) :
        resistorList[k].current =
            ResistorCurrent(resistorList[k], nodeList[resistorList[k].aNodeIndex + 1],
                            nodeList[resistorList[k].bNodeIndex + 1])

CapacitorCurrentsMatchVoltages ==
    \A k \in 1 .. Len(capacitorList) :
        capacitorList[k].current[1] =
            CapacitorCurrent(capacitorList[k], nodeList[capacitorList[k].aNodeIndex + 1],
                             nodeList[capacitorList[k].bNodeIndex + 1],
                             LastSimRate)

\* C11: after update returns, on every return path of the solver, each
\* resistor's current is (V[a,0] - V[b,0]) / resistance and each capacitor's
\* current[0] is 2*C*dV/dt - current[1] at the voltages the nodes hold.
C11_CurrentsMatchVoltages ==
    UpdateReturned => (ResistorCurrentsMatchVoltages /\ CapacitorCurrentsMatchVoltages)

\* C12, as stated: an update leaves voltage[0] of every forced node at the
\* value it had, which creation or nodeVoltage(i) wrote.
C12_ForcedNodesKeepVoltage ==
    [][lastCall'.op = "update"
          => \A i \in 1 .. Len(nodeList) :
                 nodeList[i].forced => nodeList'[i].voltage[1] = nodeList[i].voltage[1]]_vars

\* C12, amended: an update leaves voltage[0] of every forced node that is no
\* op-amp's output at the value creation or nodeVoltage(i) wrote, and writes no
\* forced node's saved voltage or slope: probes, gradient steps, line search,
\* restores and extrapolation touch unforced nodes only.
C12_SourcesKeepVoltage ==
    [][lastCall'.op = "update"
          => \A i \in 1 .. Len(nodeList) :
                 /\ IsSource(i) => nodeList'[i].voltage[1] = nodeList[i].voltage[1]
                 /\ nodeList[i].forced
                      => /\ nodeList'[i].savedVoltage = nodeList[i].savedVoltage
                         /\ nodeList'[i].slope = nodeList[i].slope]_vars

\* An update that took gradient steps and a line search has returned on a
\* circuit with an op-amp whose source was written through nodeVoltage.
C12_Witness ==
    /\ UpdateReturned
    /\ lastCall.result.adjustNodeVoltagesCount >= 2
    /\ opAmpList # <<>>
    /\ \E i \in 1 .. Len(nodeList) : IsSource(i) /\ nodeList[i].voltage = <<6, 6, 0>>

\* The instantaneous output gain * (pos - neg) of op-amp o at the voltages now
\* in the nodes, before the clamp.
LinearOutput(o) ==
    tunables.opAmpOpenLoopGain
      * (nodeList[o.posNodeIndex + 1].voltage[1] - nodeList[o.negNodeIndex + 1].voltage[1])

\* C13: after every update the voltage of every op-amp output node is within
\* [VNEG, VPOS], for every input voltage, slew setting and sample rate, and an
\* input that drives the linear model past a rail leaves the output at that
\* rail (at once when the slew filter is off).
C13_AmpOutputsWithinRails ==
    lastCall.op = "update"
        => \A k \in 1 .. Len(opAmpList) :
               /\ nodeList[opAmpList[k].outNodeIndex + 1].voltage[1] >= VNEG
               /\ nodeList[opAmpList[k].outNodeIndex + 1].voltage[1] <= VPOS
               /\ (UpdateReturned /\ opAmpFilterCoeff = 0 /\ LinearOutput(opAmpList[k]) > VPOS)
                     => nodeList[opAmpList[k].outNodeIndex + 1].voltage[1] = VPOS
               /\ (UpdateReturned /\ opAmpFilterCoeff = 0 /\ LinearOutput(opAmpList[k]) < VNEG)
                     => nodeList[opAmpList[k].outNodeIndex + 1].voltage[1] = VNEG

\* Node nodeIndex is the positive or negative input of an op-amp in the list.
IsOpAmpInput(nodeIndex) ==
    \E k \in 1 .. Len(opAmpList) :
        opAmpList[k].posNodeIndex = nodeIndex \/ opAmpList[k].negNodeIndex = nodeIndex

\* An addOpAmp(pos, neg, out) call that has passed the lock check and the
\* validation of its input nodes.
AddOpAmpAttempted ==
    /\ lastCall'.op = "addOpAmp"
    /\ ~isLocked
    /\ v(lastCall'.arg[1])
    /\ v(lastCall'.arg[2])

\* C14, as stated: adding an amp whose negative-input node or output node is
\* already an input of an earlier amp fails with the ordering error (the output
\* node being one that exists and is not yet forced); a failed add leaves the
\* amp list and the forced flags as they were.
C14_InputOrOutputFeedingEarlierAmpFails ==
    [][AddOpAmpAttempted
          => /\ (/\ IsOpAmpInput(lastCall'.arg[2]) \/ IsOpAmpInput(lastCall'.arg[3])
                 /\ v(lastCall'.arg[3])
                 /\ ~nodeList[lastCall'.arg[3] + 1].forced)
                   => lastCall'.outcome = "order_error"
             /\ lastCall'.outcome # "ok" => UNCHANGED <<opAmpList, nodeList>>]_vars

\* C14, amended: adding an amp whose output node is already an input of an
\* earlier amp fails with the ordering error; a failed add leaves the amp list
\* and the forced flags as they were; an add that only shares its
\* negative-input node with an earlier amp is not refused for that.
C14_OutputFeedingEarlierAmpFails ==
    [][AddOpAmpAttempted
          => /\ IsOpAmpInput(lastCall'.arg[3]) <=> lastCall'.outcome = "order_error"
             /\ lastCall'.outcome # "ok" => UNCHANGED <<opAmpList, nodeList>>]_vars

\* An amp was refused because its output node is the positive input, and not
\* the negative input, of the amp already there.
C14_Witness ==
    /\ lastCall.op = "addOpAmp"
    /\ lastCall.outcome = "order_error"
    /\ Len(opAmpList) = 1
    /\ opAmpList[1].posNodeIndex = lastCall.arg[3]
    /\ opAmpList[1].negNodeIndex # lastCall.arg[3]

\* No two op-amps in the list have the same output node, and every op-amp's
\* output node is forced.
OpAmpOutputsClaimedOnce ==
    /\ \A j, k \in 1 .. Len(opAmpList) :
           j # k => opAmpList[j].outNodeIndex # opAmpList[k].outNodeIndex
    /\ \A k \in 1 .. Len(opAmpList) : nodeList[opAmpList[k].outNodeIndex + 1].forced

\* C15: allocateForcedVoltageNode(i) marks a node whose flag is clear as forced
\* and changes nothing else; on a node already forced, by an earlier
\* allocation, by createForcedVoltageNode or createGroundNode or as an op-amp's
\* output, it fails and changes nothing.  So an op-amp is only ever given an
\* output node that no forcer had claimed, and no two op-amps share one.
C15_ForcedNodeIsClaimedOnce ==
    [][/\ (lastCall'.op = "allocateForcedVoltageNode" /\ v(lastCall'.arg))
            => IF nodeList[lastCall'.arg + 1].forced
               THEN lastCall'.outcome = "already_forced" /\ UNCHANGED circuitVars
               ELSE /\ lastCall'.outcome = "ok"
                    /\ nodeList' = [nodeList EXCEPT ![lastCall'.arg + 1].forced = TRUE]
                    /\ UNCHANGED <<isLocked, resistorList, capacitorList, opAmpList, comparatorList, tunables>>
       /\ (lastCall'.op = "addOpAmp" /\ lastCall'.outcome = "ok")
            => ~nodeList[lastCall'.arg[3] + 1].forced
       /\ OpAmpOutputsClaimedOnce']_vars

\* allocateForcedVoltageNode has failed on the output node of an op-amp.
C15_Witness ==
    /\ lastCall.op = "allocateForcedVoltageNode"
    /\ lastCall.outcome = "already_forced"
    /\ IsOpAmpOutput(lastCall.arg + 1)

\* C16: an update at a positive sample rate r returns after exactly N
\* simulation steps, N being the least positive integer with
\* N * r >= minInternalSamplingRate, and every one of the steps is made at the
\* internal rate N * r, that is with the time step 1 / (N * r).
C16_OversampleFactorIsLeast ==
    UpdateReturned =>
        LET N == Len(lastCall.steps)
        IN  /\ (N * lastCall.arg) \div RateScale >= tunables.minInternalSamplingRate
            /\ (N = 1
                  \/ ((N - 1) * lastCall.arg) \div RateScale < tunables.minInternalSamplingRate)
            /\ \A k \in 1 .. N : lastCall.steps[k].simRate = N * lastCall.arg

LastExit ==
    IF lastCall.steps = <<>> \/ lastCall.steps[Len(lastCall.steps)].exits = <<>> THEN "none"
    ELSE lastCall.steps[Len(lastCall.steps)].exits[Len(lastCall.steps[Len(lastCall.steps)].exits)]

\* The square root of the sum of the squared net currents into the unforced
\* nodes, at the voltages the nodes hold.
RECURSIVE SumSquaredNetCurrents(_)
SumSquaredNetCurrents(i) ==
    IF i > Len(nodeList) THEN 0
    ELSE (IF nodeList[i].forced THEN 0 ELSE NetCurrent(i, LastSimRate) * NetCurrent(i, LastSimRate))
           + SumSquaredNetCurrents(i + 1)

ResidualAtVoltages == Sqrt(SumSquaredNetCurrents(1))

\* C18: when the solver finds no improving direction, the gradient being
\* zero or the micro-step along it gaining nothing, the update does not
\* raise: it returns, the unforced nodes hold the voltages the iteration
\* started with, and the result's score is the residual at those voltages.
\* (The residual is recomputed from the nodes where no op-amp has moved its
\* output node during the iteration.)
C18_NoImprovingDirectionHalts ==
    (lastCall.op = "update" /\ LastExit \in {"zero_gradient", "local_minimum"}) =>
        /\ lastCall.outcome = "ok"
        /\ \A i \in 1 .. Len(nodeList) :
               nodeList[i].forced \/ nodeList[i].voltage[1] = nodeList[i].savedVoltage
        /\ opAmpList = <<>> => lastCall.result.score = ResidualAtVoltages

\* Simulation step k of the last update has used up retryLimit calls of
\* adjustNodeVoltages, none of which reached the tolerance or halted.
StepExhausted(k) ==
    /\ Len(lastCall.steps[k].exits) = tunables.retryLimit
    /\ \A j \in 1 .. Len(lastCall.steps[k].exits) : lastCall.steps[k].exits[j] = "progress"

\* The number of adjustNodeVoltages calls made in steps k, k+1, ... of the last update.
RECURSIVE AdjustCallsFrom(_)
AdjustCallsFrom(k) ==
    IF k > Len(lastCall.steps) THEN 0
    ELSE Len(lastCall.steps[k].exits) + AdjustCallsFrom(k + 1)

\* C19: when the simulation step an update ends in has used up retryLimit
\* solver iterations without reaching the tolerance and without halting,
\* the update has returned normally and reports the residual re-evaluated at
\* the voltages left in the nodes; and when any step of a returned update
\* has done so, that step counts retryLimit in adjustNodeVoltagesCount, which
\* is then the number of solver iterations the update has made.
C19_ExhaustedStepReturns ==
    lastCall.op = "update" =>
        /\ (lastCall.steps # <<>> /\ StepExhausted(Len(lastCall.steps)))
              => (/\ lastCall.outcome = "ok"
                  /\ lastCall.result.exit = "retry_limit"
                  /\ lastCall.result.score = ResidualAtVoltages)
        /\ (lastCall.outcome = "ok" /\ \E k \in 1 .. Len(lastCall.steps) : StepExhausted(k))
              => lastCall.result.adjustNodeVoltagesCount = AdjustCallsFrom(1)

\* An update of several steps has returned from an exhausted last step with an
\* error above the tolerance, an earlier step having ended otherwise.
C19_Witness ==
    /\ UpdateReturned
    /\ Len(lastCall.steps) >= 2
    /\ StepExhausted(Len(lastCall.steps))
    /\ ~StepExhausted(1)
    /\ lastCall.result.score > tunables.scoreTolerance
    /\ lastCall.result.adjustNodeVoltagesCount > tunables.retryLimit

\* C20: during the solve of one sample the output voltage of every
\* comparator is the same at every evaluator call of that solve, whatever
\* trial voltages the solver puts on the comparator's input; it is the
\* voltage latched when the sample began, and it changes only between samples.
C20_ComparatorOutputsLatched ==
    lastCall.op = "update" =>
        \A k \in 1 .. Len(lastCall.steps) : Cardinality(lastCall.steps[k].outputs) <= 1

\* An update of several samples has returned: the solver has iterated in its
\* first sample, the comparator's output has changed from the first sample to
\* the second, and the voltage the last solve left on the comparator's input
\* is on the other side of zero than the output that solve met was latched from.
C20_Witness ==
    /\ UpdateReturned
    /\ comparatorList # <<>>
    /\ Len(lastCall.steps) >= 2
    /\ Len(lastCall.steps[1].exits) >= 2
    /\ lastCall.steps[1].outputs # lastCall.steps[2].outputs
    /\ \A k \in 1 .. Len(lastCall.steps) : lastCall.steps[k].outputs # {}
    /\ lastCall.steps[Len(lastCall.steps)].outputs
          # {[k \in 1 .. Len(comparatorList) |->
                Saturated(nodeList[comparatorList[k].negNodeIndex + 1].voltage[1])]}

\* The constructor of TorporSlothCircuit has thrown.
ConstructorThrew == torporSlothCircuit.position < 0

\* The amps, resistors and capacitors a constructed TorporSlothCircuit reports.
TorporComponentCounts ==
    /\ getLinearAmpCount = 3
    /\ getOpAmpCount = 3
    /\ getComparatorCount = 1
    /\ getResistorCount = 8
    /\ getCapacitorCount = 3

\* C21, as stated: a freshly constructed TorporSlothCircuit is locked and
\* reports exactly 9 nodes, 3 linear amps and 1 comparator, 8 resistors and 3
\* capacitors.
C21_TorporHasNineNodes ==
    /\ ~ConstructorThrew
    /\ Constructed => (isLocked /\ getNodeCount = 9 /\ TorporComponentCounts)

\* C21, amended: the constructor of TorporSlothCircuit does not throw, and
\* the circuit it leaves is locked and reports exactly 10 nodes (the ground
\* node, n1 to n8 and the control-voltage node), 3 linear amps and 1
\* comparator, 8 resistors and 3 capacitors, and goes on doing so.
C21_TorporHasTenNodes ==
    /\ ~ConstructorThrew
    /\ Constructed => (isLocked /\ getNodeCount = 10 /\ TorporComponentCounts)

\* The constructor has just returned.
C21_Witness ==
    /\ Constructed
    /\ lastCall.op = "TorporSlothCircuit"
    /\ lastCall.outcome = "ok"
    /\ torporSlothCircuit.variableResistance = 2
    /\ torporSlothCircuit.controlVoltage = 9

\* The resistance of the variable resistor (R3 + R9, resistor 2), and the
\* voltage[0] of the control-voltage node (n9).
VariableResistance == resistorList[3].resistance
ControlVoltage == nodeList[10].voltage[1]

\* C22: setKnobPosition(f) sets the variable resistor's resistance to
\* 100 kOhm + clamp(f, 0, 1) * 10 kOhm (f and the resistance at the model's
\* resolution, f in 1/KnobScale) and changes no other resistor, no component
\* current, no node and no counter; and after construction and any sequence of
\* calls the resistance lies in [100 kOhm, 110 kOhm].
C22_KnobSetsVariableResistance ==
    [][/\ lastCall'.op = "setKnobPosition"
            => /\ lastCall'.arg < 0 => VariableResistance' = KiloOhms(100)
               /\ lastCall'.arg > KnobScale => VariableResistance' = KiloOhms(110)
               /\ (lastCall'.arg >= 0 /\ lastCall'.arg <= KnobScale)
                     => KnobScale * VariableResistance'
                          = KnobScale * KiloOhms(100) + lastCall'.arg * KiloOhms(10)
               /\ resistorList' = [resistorList EXCEPT ![3].resistance = VariableResistance']
               /\ UNCHANGED <<isLocked, nodeList, capacitorList, opAmpList, comparatorList,
                              totalAdjustNodeVoltagesCount, totalCurrentUpdates, totalSamples,
                              simulationTime, opAmpFilterCoeff, tunables, torporSlothCircuit>>
       /\ Constructed'
            => (VariableResistance' >= KiloOhms(100) /\ VariableResistance' <= KiloOhms(110))]_vars

\* The knob was set to a quarter of its range on a circuit that has been
\* updated, after having stood elsewhere.
C22_Witness ==
    /\ lastCall.op = "setKnobPosition"
    /\ lastCall.arg = 1
    /\ KnobScale * VariableResistance = KnobScale * KiloOhms(100) + KiloOhms(10)
    /\ totalSamples > 0
    /\ history.calls = 3

\* C23: setControlVoltage(cv) writes clamp(cv, VNEG, VPOS) to voltage[0] of
\* the control-voltage node and to nothing else; and after construction and
\* any sequence of setKnobPosition, setControlVoltage, update and initialize
\* calls the control-voltage node's voltage[0] lies in [VNEG, VPOS].
C23_ControlVoltageWithinRails ==
    [][/\ lastCall'.op = "setControlVoltage"
            => /\ lastCall'.arg < VNEG => ControlVoltage' = VNEG
               /\ lastCall'.arg > VPOS => ControlVoltage' = VPOS
               /\ (lastCall'.arg >= VNEG /\ lastCall'.arg <= VPOS)
                     => ControlVoltage' = lastCall'.arg
               /\ nodeList' = [nodeList EXCEPT ![10].voltage[1] = ControlVoltage']
               /\ UNCHANGED <<isLocked, resistorList, capacitorList, opAmpList, comparatorList,
                              totalAdjustNodeVoltagesCount, totalCurrentUpdates, totalSamples,
                              simulationTime, opAmpFilterCoeff, tunables, torporSlothCircuit>>
       /\ Constructed' => (ControlVoltage' >= VNEG /\ ControlVoltage' <= VPOS)]_vars

\* An update has returned with the control-voltage node at the positive rail,
\* where a control voltage above the rail had left it.
C23_Witness ==
    /\ Constructed
    /\ UpdateReturned
    /\ ControlVoltage = VPOS
    /\ nodeList[10].voltage = <<VPOS, VPOS, 0>>

\* The score the evaluator measures at the voltages call j of
\* adjustNodeVoltages of step k of the last update has left: the score1 of
\* the call after it, or that of the closing updateCurrents of the step.
ResidualAfter(k, j) ==
    IF j < Len(lastCall.steps[k].scores) THEN lastCall.steps[k].scores[j + 1]
    ELSE lastCall.steps[k].residual

\* C24: every call of adjustNodeVoltages that moves an unforced voltage
\* leaves the voltages at a point where the evaluator measures a residual
\* strictly smaller than the score1 the call started with, after a step
\* along the gradient as after a single-axis fallback step; a call that
\* ends at the tolerance, at a local minimum or on a zero gradient leaves
\* every unforced voltage as it found it.
C24_SolverNeverLosesGround ==
    lastCall.op = "update" =>
        \A k \in 1 .. Len(lastCall.steps) :
            \A j \in 1 .. Len(lastCall.steps[k].exits) :
                /\ (lastCall.steps[k].exits[j] = "progress" /\ lastCall.steps[k].moved[j])
                      => ResidualAfter(k, j) < lastCall.steps[k].scores[j]
                /\ lastCall.steps[k].exits[j] \in {"tolerance", "local_minimum", "zero_gradient"}
                      => ~lastCall.steps[k].moved[j]

\* C25: in a circuit the builder accepted, no evaluator pass of an update writes
\* an op-amp output into a node that an op-amp has already read as its input in
\* that pass: every output is computed from inputs that are final for the pass.
C25_AmpInputsFinalWithinPass ==
    lastCall.op = "update" =>
        \A k \in 1 .. Len(lastCall.steps) : lastCall.steps[k].overwritten = {}

\* The current the trapezoidal rule gives capacitor i at the voltages and the
\* previous current of the evaluation s, over the interval 1 / simRate.
TrapezoidalCurrent(i, s, simRate) ==
    2 * RoundDiv(capacitorList[i].capacitance
                   * (((s.voltage[capacitorList[i].aNodeIndex + 1][1]
                          - s.voltage[capacitorList[i].bNodeIndex + 1][1])
                        - (s.voltage[capacitorList[i].aNodeIndex + 1][2]
                             - s.voltage[capacitorList[i].bNodeIndex + 1][2]))
                      * simRate),
                 RateScale)
      - s.current[i][2]

\* The evaluations s and t have the same history: every node's voltage[1] and
\* voltage[2] and every capacitor's current[1].
SameHistory(s, t) ==
    /\ \A n \in 1 .. Len(s.voltage) :
           /\ s.voltage[n][2] = t.voltage[n][2]
           /\ s.voltage[n][3] = t.voltage[n][3]
    /\ \A i \in 1 .. Len(s.current) : s.current[i][2] = t.current[i][2]

\* The circuit as an update leaves it, in the form of an evaluation.
FinalEvaluation ==
    [voltage |-> [n \in 1 .. Len(nodeList) |-> nodeList[n].voltage],
     current |-> [i \in 1 .. Len(capacitorList) |-> capacitorList[i].current]]

\* C26: within a simulation step of an update all evaluator calls meet, and the
\* step leaves, the same voltage[1] and voltage[2] of every node and the same
\* current[1] of every capacitor; after every evaluator call each capacitor's
\* current[0] is 2 * C * dV / dt - current[1] with dV the change of the voltage
\* across it since the previous step and dt = 1 / (N * sampleRate).
C26_CapacitorTrapezoidalUpdate ==
    lastCall.op = "update" =>
        \A k \in 1 .. Len(lastCall.steps) :
            /\ lastCall.outcome = "ok"
                  => lastCall.steps[k].simRate = Len(lastCall.steps) * lastCall.arg
            /\ \A s \in lastCall.steps[k].evaluated :
                   /\ \A i \in 1 .. Len(capacitorList) :
                          s.current[i][1] = TrapezoidalCurrent(i, s, lastCall.steps[k].simRate)
                   /\ \A t \in lastCall.steps[k].evaluated : SameHistory(s, t)
                   /\ k = Len(lastCall.steps) => SameHistory(s, FinalEvaluation)

\* An update has returned from a step in which the evaluator was called at
\* several voltages of a capacitor whose previous current was not zero.
C26_Witness ==
    /\ lastCall.op = "update"
    /\ lastCall.outcome = "ok"
    /\ capacitorList # <<>>
    /\ \E k \in 1 .. Len(lastCall.steps) :
           /\ k > 1
           /\ \E s, t \in lastCall.steps[k].evaluated :
                  /\ s.current[1][2] # 0
                  /\ s.current[1][1] # t.current[1][1]
                  /\ s.current[1][1] # 0

\* The number of unforced nodes: the unknowns of the solver.
UnforcedNodeCount == Cardinality({i \in 1 .. Len(nodeList) : ~nodeList[i].forced})

\* The evaluator calls of one solver iteration whose upper-bracket loop makes
\* doublings trials: score1, two probes per unknown, the micro-step, the
\* trials of the upper-bracket loop and the nsteps - 1 = 8 interior points.
IterationEvaluatorCalls(doublings) == 1 + 2 * UnforcedNodeCount + 1 + doublings + 8

\* C27: an update called with a positive sample rate comes to an end, returning
\* or raising: every simulation step it starts makes at most retryLimit solver
\* iterations, no iteration's line search is still doubling after MaxDoublings
\* trials, and an update that returns has made N steps and at most the
\* evaluator calls of retryLimit iterations and one closing call in each.
C27_UpdateTerminates ==
    (lastCall.op = "update" /\ lastCall.arg > 0) =>
        /\ lastCall.outcome \in {"ok", "logic_error"}
        /\ \A k \in 1 .. Len(lastCall.steps) :
               /\ Len(lastCall.steps[k].exits) <= tunables.retryLimit
               /\ \A j \in 1 .. Len(lastCall.steps[k].exits) :
                      lastCall.steps[k].exits[j] # "no_return"
        /\ lastCall.outcome = "ok" =>
               /\ Len(lastCall.steps) \in OversampleFactors(lastCall.arg)
               /\ lastCall.result.adjustNodeVoltagesCount <= Len(lastCall.steps) * tunables.retryLimit
               /\ lastCall.result.currentUpdates
                     <= Len(lastCall.steps)
                          * (tunables.retryLimit * IterationEvaluatorCalls(MaxDoublings) + 1)

\* An update has returned from a step that used up a retry limit of one with an
\* iteration whose upper-bracket loop doubled the step more than once.
C27_Witness ==
    /\ lastCall.op = "update"
    /\ lastCall.arg > 0
    /\ lastCall.outcome = "ok"
    /\ tunables.retryLimit = 1
    /\ Len(lastCall.steps) = 1
    /\ lastCall.result.exit = "retry_limit"
    /\ lastCall.steps[1].exits = <<"progress">>
    /\ lastCall.result.currentUpdates > IterationEvaluatorCalls(1) + 1

\* The sum of the currents, from those of node i on, of the nodes that are
\* forced (forced = TRUE) or unforced (forced = FALSE).
RECURSIVE TotalCurrent(_, _, _)
TotalCurrent(current, forced, i) ==
    IF i > Len(current) THEN 0
    ELSE (IF nodeList[i].forced = forced THEN current[i] ELSE 0)
           + TotalCurrent(current, forced, i + 1)

\* C28: in every evaluator call of an update the net currents of all nodes, as
\* the resistors and capacitors have accumulated them and before those of the
\* forced nodes are cleared, sum to zero: what the forced nodes absorb is minus
\* the total residual current of the unforced nodes.
C28_CurrentConservation ==
    lastCall.op = "update" =>
        \A k \in 1 .. Len(lastCall.steps) :
            \A current \in lastCall.steps[k].accumulated :
                TotalCurrent(current, TRUE, 1) = 0 - TotalCurrent(current, FALSE, 1)

\* An update of a circuit with a capacitor has made an evaluator call in which
\* the unforced nodes were left with a net current.
C28_Witness ==
    /\ lastCall.op = "update"
    /\ capacitorList # <<>>
    /\ \E k \in 1 .. Len(lastCall.steps) :
           \E current \in lastCall.steps[k].accumulated :
               /\ TotalCurrent(current, FALSE, 1) # 0
               /\ capacitorList[1].current[1] # 0

\* The voltage[0] node i held at the end of the simulation step made back steps
\* before step k of the last update (back = 1: the previous step), where the
\* steps of the updates that returned before it, one after the other, count.
\* The set is empty where no such step is on record.
VoltageLeft(k, i, back) ==
    IF k > back THEN {lastCall.steps[k - back].left[i]}
    ELSE IF /\ Len(history.trail) >= 2 + (back - k)
            /\ \A j \in 1 .. back - k : history.trail[Len(history.trail) - j].steps = 1
    THEN {history.trail[Len(history.trail) - 1 - (back - k)].voltage[i]}
    ELSE {}

\* C29: every simulation step of an update starts the solver, after the history
\* shift, with each unforced node's voltage[0] at 2 * v0 - v1, v0 and v1 being
\* the voltage[0] the node held at the end of the previous step and of the step
\* before it; a forced node keeps the voltage[0] it had before the step.
C29_GuessIsLinearExtrapolation ==
    UpdateReturned =>
        \A k \in 1 .. Len(lastCall.steps) :
            \A i \in 1 .. Len(nodeList) :
                IF nodeList[i].forced
                THEN lastCall.steps[k].guess[i] = lastCall.steps[k].before[i]
                ELSE \A v0 \in VoltageLeft(k, i, 1) :
                         \A v1 \in VoltageLeft(k, i, 2) :
                             lastCall.steps[k].guess[i] = 2 * v0 - v1

\* The first step of an update, the third one-step update in a row, has started
\* an unforced node from a voltage extrapolated past the two it held before.
C29_Witness ==
    /\ UpdateReturned
    /\ Len(lastCall.steps) = 1
    /\ Len(history.trail) = 3
    /\ history.trail[2].steps = 1
    /\ \E i \in 1 .. Len(nodeList) :
           /\ ~nodeList[i].forced
           /\ VoltageLeft(1, i, 1) # VoltageLeft(1, i, 2)
           /\ VoltageLeft(1, i, 1) # {}
           /\ VoltageLeft(1, i, 2) # {}
           /\ lastCall.steps[1].guess[i] # lastCall.steps[1].before[i]

\* C30: an update, whether it returns or raises, leaves the lock state, the
\* number and order of nodes and components, every component's node indices,
\* every resistance and capacitance, every node's forced flag and the public
\* tunables as they were.
C30_UpdateChangesOnlyDynamicState ==
    [][lastCall'.op = "update"
          => /\ isLocked' = isLocked
             /\ Topology' = Topology
             /\ ComponentValues' = ComponentValues
             /\ comparatorList' = comparatorList
             /\ tunables' = tunables]_vars

\* An update has raised after its solver had moved a node, in a circuit an
\* earlier update had returned from.
C30_Witness ==
    /\ lastCall.op = "update"
    /\ lastCall.outcome = "logic_error"
    /\ history.updatesReturned >= 1
    /\ \E k \in 1 .. Len(lastCall.steps) :
           \E j \in 1 .. Len(lastCall.steps[k].moved) : lastCall.steps[k].moved[j]
====
